---- MODULE Spec2Model ----
(***************************************************************************)
(* Model of the chess-master-server real-time core: the live game hash in  *)
(* Redis, the socket game handlers, the TimeManager clock and scanner,     *)
(* the RatingService update and the dynamic matchmaker.                     *)
(*                                                                          *)
(* A Redis command is atomic; a handler is suspended at every await, so a  *)
(* handler whose interleaving matters (handleMove, processSearchRequest)   *)
(* is one action per Redis command, with its locals kept in a slot.        *)
(* Times are in milliseconds, as in the source.                            *)
(***************************************************************************)
EXTENDS Integers, Sequences, FiniteSets, TLC

\* ------------------------------------------------------------------ bounds
MaxNow == 3000
StepMs == 1000
MaxMoves == 2
MaxMoveCmds == 3
MaxInFlight == 2
MaxRatingUpdates == 2
MaxGames == 2
MaxSearches == 4
MaxTicks == 2
SearchStepMs == 15000
MaxSearchNow == 30000
MaxEvents == 4
BatchStepMs == 1000
MaxBatchNow == 7000
MaxLog == 3
MaxRedeliveries == 2
MaxRejects == 2
MaxHighEvents == 11
MaxHighNow == 2000
MaxEndLog == 2

\* ------------------------------------------------------------- value sets
Users == {"a", "b", "c"}
Nodes == {"n1", "n2"}
Colors == {"white", "black"}
GameIds == 1..MaxGames
\* the games the game handlers are exercised on
PlayGames == {1}
\* the searcher and the opponent of a game created for the game handlers
PlayPairs == {<<"a", "b">>}
Slots == 1..MaxInFlight
TickSlots == 1..MaxTicks
\* whether the searcher gets the white pieces in the games created for the
\* game handlers
SearcherWhite == {TRUE}
\* timeControl values a game is created with: seconds and increment seconds
TimeControls == {[time |-> 2, increment |-> 1]}
\* SAN strings a client sends: an ordinary move, a mating move, and a string
\* that is a legal move in no position
NormalSans == {"Nf3"}
MateSans == {"Qh5#"}
Sans == NormalSans \cup MateSans
BadSans == {"Ke9"}

Max(x, y) == IF x >= y THEN x ELSE y
Min(x, y) == IF x <= y THEN x ELSE y

VARIABLES
  now,            \* Date.now()
  live,           \* Redis game hashes: gameId -> hash
  durable,        \* MongoDB game documents: gameId -> document
  profile,        \* MongoDB user profiles: userId -> counters
  ratingUpdates,  \* gameId -> number of RatingService.updatePlayerRatings runs
  clock,          \* TimeManager.gameStates of each node: node -> gameId -> state
  handlers,       \* handleMove invocations suspended at an await
  moveCmds,       \* number of move commands taken up step by step
  accepted,       \* gameId -> the moves broadcast to the room as accepted
  rooms,          \* node -> the game rooms a socket of the node has joined
  lastGameOver,   \* gameId -> the last game_over payload emitted to the room
  queue,          \* the matchmaking sorted set of the game type: its members
  session,        \* Redis search_session:<userId>
  playerHash,     \* Redis player hashes: userId -> present or not
  locks,          \* the match_lock keys that are set
  ticks,          \* processSearchRequest invocations suspended at an await
  searches,       \* userId -> number of searches started
  matchFound,     \* userId -> the gameId of the last match_found received
  eventBatch,     \* GameEventBatchProcessor.eventBatch
  batchTimer,     \* the time batchTimer fires at, 0 when it is null
  highTimers,     \* the times the pending HIGH_PRIORITY_TIMEOUT timers fire at
  handed,         \* the events handed to publishGameEventsBatch, in order
  lost,           \* the events of the batches whose publish failed
  flushing,       \* where the flushBatch of the shutdown is: idle, await, returned
  log,            \* the move_made messages of the game's Kafka partition
  position,       \* the number of messages of log the consumer has gone past
  processed,      \* the offsets of log that handleMessage has been run on
  redeliveries,   \* the number of times the consumer went back in log
  persisted,      \* the moves and pgn of the game's MongoDB document
  socketErrors,   \* userId -> the {success: false} replies sent to the socket
  drawOffers,     \* gameId -> the offeredBy of the offer_draw messages emitted
  rated,          \* the last RatingCalculation of calculateNewRatings
  userRating,     \* userId -> the rating the search_match handler reads
  gameStatus,     \* the gameStatus the last makeMove returned
  endLog,         \* the game-ending events of the game's Kafka partition
  durableResult   \* the result of the game's MongoDB document

\* the matchmaker's state
matchVars == <<queue, session, playerHash, locks, ticks, searches,
               matchFound>>

\* the game rooms of the nodes
roomVars == <<rooms>>

\* the batch processor
pipeVars == <<eventBatch, batchTimer, highTimers, handed, lost, flushing>>

\* the persistence consumer
consumerVars == <<log, position, processed, redeliveries, persisted>>

\* the replies of handleMove that go to the sending socket alone, and the
\* draw offers emitted to the rooms
replyVars == <<socketErrors, drawOffers>>

\* the end of a game as the pipeline records it
endVars == <<gameStatus, endLog, durableResult>>

\* the result of the rating calculation, which is followed on its own, and
\* the ratings the users search with, which no action of the model changes
calcVars == <<rated, userRating, endVars>>

\* what the game handlers and the matchmaker leave alone
auxVars == <<pipeVars, consumerVars, replyVars, calcVars>>

\* the state of the games apart from the LiveGame and the DurableGame
playVars == <<now, profile, ratingUpdates, clock, handlers, moveCmds,
              accepted, lastGameOver, rooms>>

vars == <<now, live, durable, profile, ratingUpdates, clock, handlers,
          moveCmds, accepted, lastGameOver, queue, session, playerHash,
          locks, ticks, searches, rooms, matchFound, eventBatch,
          batchTimer, highTimers, handed, lost, flushing, log, position,
          processed,
          redeliveries, persisted, socketErrors, drawOffers, rated, userRating,
          endVars>>

\* ----------------------------------------------------------- types/game.ts
getOppositeColor(c) == IF c = "white" THEN "black" ELSE "white"

timeControlToMs(tc) == [white |-> tc.time * 1000, black |-> tc.time * 1000]

\* ------------------------------------------------ chess.js, as it is used
\* A position is the list of moves played from the initial FEN.
Terminal(hist) == Len(hist) > 0 /\ hist[Len(hist)] \in MateSans

\* chess.move(san) returns a move iff san is legal; it throws otherwise.
\* No move is legal once the game is over.
LegalMove(hist, san) == san \in Sans /\ ~Terminal(hist)

\* fromGameId replays the stored moves; the replay throws at the first
\* stored move that is not legal where it stands.
ReplayOk(moves) ==
  \A i \in 1..Len(moves) : LegalMove(SubSeq(moves, 1, i - 1), moves[i])

\* chess.turn(): white moves first and the sides alternate.
EngineTurn(hist) == IF Len(hist) % 2 = 0 THEN "white" ELSE "black"

\* chess.pgn(): the numbered move text of the history.
Pgn(hist) == [i \in 1..Len(hist) |-> <<(i + 1) \div 2, hist[i]>>]

\* getGameStatus after a move: only checkmate ends the modelled games.
GameStatus(hist) ==
  IF Terminal(hist)
  THEN [isGameOver |-> TRUE,
        winner |-> getOppositeColor(EngineTurn(hist)),
        result |-> IF getOppositeColor(EngineTurn(hist)) = "white"
                   THEN "1-0" ELSE "0-1",
        reason |-> "checkmate"]
  ELSE [isGameOver |-> FALSE, winner |-> "unset", result |-> "unset",
        reason |-> "unset"]

\* ------------------------------------------------------------ blank values
NoLive ==
  [exists |-> FALSE, playerInfo |-> <<>>,
   timeLeft |-> [white |-> 0, black |-> 0], increment |-> 0,
   moves |-> <<>>, pgn |-> <<>>, turn |-> "white", lastMovePlayedAt |-> 0,
   gameOver |-> FALSE, winner |-> "unset", result |-> "unset",
   endReason |-> "unset"]

NoDurable ==
  [exists |-> FALSE, players |-> <<>>,
   timeControl |-> [time |-> 0, increment |-> 0], status |-> "active",
   winner |-> "unset", reason |-> "unset", score |-> "unset"]

NoClock ==
  [tracked |-> FALSE, lastMoveTime |-> 0, isActive |-> FALSE,
   currentTurn |-> "white"]

NoProfile == [totalGames |-> 0, wins |-> 0, losses |-> 0, draws |-> 0]

Idle ==
  [pc |-> "idle", node |-> "n1", g |-> 1, san |-> "Nf3", color |-> "white",
   hist |-> <<>>, ts |-> 0, wMoves |-> <<>>,
   wTimeLeft |-> [white |-> 0, black |-> 0], wLast |-> 0, tsRef |-> "none"]

NoGameOver == [winner |-> "unset", result |-> "unset", reason |-> "none"]

NoSession ==
  [exists |-> FALSE, initialRating |-> 0, currentRange |-> 0,
   searchStartTime |-> 0, timeControl |-> [time |-> 0, increment |-> 0]]

NoTick ==
  [pc |-> "idle", user |-> "a", cands |-> <<>>, gameId |-> 0,
   currentRange |-> 0, searchStartTime |-> 0, timeControl |-> [time |-> 0, increment |-> 0]]

\* the gameStatus of a game that goes on: result, winner and reason undefined
NoStatus ==
  [isGameOver |-> FALSE, result |-> "unset", winner |-> "unset",
   reason |-> "unset", inCheckmate |-> FALSE, inStalemate |-> FALSE,
   isDraw |-> FALSE, turn |-> "white"]

\* no result written to the document
NoResult == [winner |-> "unset", reason |-> "unset"]

\* no calculation made yet
NoRated ==
  [done |-> FALSE, result |-> "1/2-1/2",
   whitePlayerRating |-> [oldRating |-> 0, newRating |-> 0, ratingChange |-> 0,
                          isProvisional |-> FALSE, gamesPlayed |-> 0],
   blackPlayerRating |-> [oldRating |-> 0, newRating |-> 0, ratingChange |-> 0,
                          isProvisional |-> FALSE, gamesPlayed |-> 0]]

\* the ratings the users search with: c is within the initial range of a and
\* of b, which are out of each other's
DefaultRatings == [u \in Users |->
                     IF u = "a" THEN 1200 ELSE IF u = "b" THEN 1300 ELSE 1250]

\* a and b 200 points apart, c out of the reach of both
FarRatings == [u \in Users |->
                 IF u = "a" THEN 1200 ELSE IF u = "b" THEN 1400 ELSE 2500]

\* ------------------------------------------------------------------- Init
InitState ==
  /\ now = 0
  /\ live = [g \in GameIds |-> NoLive]
  /\ durable = [g \in GameIds |-> NoDurable]
  /\ profile = [u \in Users |-> NoProfile]
  /\ ratingUpdates = [g \in GameIds |-> 0]
  /\ clock = [n \in Nodes |-> [g \in GameIds |-> NoClock]]
  /\ handlers = [h \in Slots |-> Idle]
  /\ moveCmds = 0
  /\ accepted = [g \in GameIds |-> <<>>]
  /\ lastGameOver = [g \in GameIds |-> NoGameOver]
  /\ queue = {}
  /\ session = [u \in Users |-> NoSession]
  /\ playerHash = [u \in Users |-> FALSE]
  /\ locks = {}
  /\ ticks = [t \in TickSlots |-> NoTick]
  /\ searches = [u \in Users |-> 0]
  /\ rooms = [n \in Nodes |-> {}]
  /\ matchFound = [u \in Users |-> 0]
  /\ eventBatch = <<>>
  /\ batchTimer = 0
  /\ highTimers = <<>>
  /\ handed = <<>>
  /\ lost = {}
  /\ flushing = "idle"
  /\ log = <<>>
  /\ position = 0
  /\ processed = {}
  /\ redeliveries = 0
  /\ persisted = [moves |-> <<>>, pgn |-> <<>>]
  /\ socketErrors = [u \in Users |-> 0]
  /\ drawOffers = [g \in GameIds |-> {}]
  /\ rated = NoRated
  /\ gameStatus = NoStatus
  /\ endLog = <<>>
  /\ durableResult = NoResult

Init == InitState /\ userRating = DefaultRatings

\* ---------------------------------------------------------------- helpers
\* playerInfo.find((p) => p.userId === userId): index of the first match, 0
\* when there is none
FindPlayer(info, u) ==
  IF \E i \in 1..Len(info) : info[i].userId = u
  THEN CHOOSE i \in 1..Len(info) :
         /\ info[i].userId = u
         /\ \A j \in 1..(i - 1) : info[j].userId # u
  ELSE 0

\* players.find((p) => p.color === c).userId
UserOfColor(info, c) ==
  info[CHOOSE i \in 1..Len(info) : info[i].color = c].userId

\* the handleMove invocations that hold a reference to the GameTimeState
\* object of (n, g) lose sight of the map entry when the entry is deleted or
\* replaced: what they write to the object afterwards is not in the map
OrphanRefs(n, g) ==
  [h \in Slots |->
     IF handlers[h].node = n /\ handlers[h].g = g /\ handlers[h].tsRef = "live"
     THEN [handlers[h] EXCEPT !.tsRef = "orphan"]
     ELSE handlers[h]]

\* no handleMove invocation is suspended
Quiet == \A h \in Slots : handlers[h].pc = "idle"

\* --------------------------------------------------- RatingService (counters)
\* the $inc part of one findOneAndUpdate of updatePlayerRatings
BumpProfile(p, color, winner) ==
  [totalGames |-> p.totalGames + 1,
   wins |-> p.wins + (IF winner = color THEN 1 ELSE 0),
   losses |-> p.losses + (IF winner = getOppositeColor(color) THEN 1 ELSE 0),
   draws |-> p.draws + (IF winner = "null" THEN 1 ELSE 0)]

\* RatingService.updatePlayerRatings: both profiles are updated, whatever the
\* state of the game
updatePlayerRatings(g, winner) ==
  LET w == UserOfColor(live[g].playerInfo, "white")
      b == UserOfColor(live[g].playerInfo, "black")
  IN /\ profile' = [profile EXCEPT
                      ![w] = BumpProfile(@, "white", winner),
                      ![b] = BumpProfile(@, "black", winner)]
     /\ ratingUpdates' = [ratingUpdates EXCEPT ![g] = @ + 1]

ResultOf(winner) == IF winner = "white" THEN "1-0" ELSE "0-1"

\* ------------------------------------------------------------ TimeManager
ToleranceMs == 100

\* TimeManager.calculateCurrentTime on node n
calculateCurrentTime(n, g, c) ==
  IF ~live[g].exists \/ ~clock[n][g].tracked
  THEN 0
  ELSE IF clock[n][g].currentTurn = c /\ clock[n][g].isActive
       THEN Max(0, live[g].timeLeft[c] - (now - clock[n][g].lastMoveTime))
       ELSE live[g].timeLeft[c]

\* TimeManager.stopGameTimer on node n
stopGameTimer(n, g) ==
  /\ clock' = [clock EXCEPT ![n][g] = NoClock]
  /\ handlers' = OrphanRefs(n, g)

\* TimeManager.handleTimeUp on node n: ChessGameService.handleTimeForfit,
\* then the Redis end-of-game fields, then the game_over broadcast.  An
\* exception (a stored move list that does not replay) is caught and logged
\* after the timer was stopped.
handleTimeUp(n, g, c) ==
  /\ stopGameTimer(n, g)
  /\ IF live[g].exists /\ ReplayOk(live[g].moves)
     THEN LET winner == getOppositeColor(c)
          IN /\ updatePlayerRatings(g, winner)
             /\ durable' = [durable EXCEPT ![g] =
                  [@ EXCEPT !.status = "completed", !.winner = winner,
                            !.reason = "timeout", !.score = ResultOf(winner)]]
             /\ live' = [live EXCEPT ![g] =
                  [@ EXCEPT !.gameOver = TRUE, !.winner = winner,
                            !.result = ResultOf(winner),
                            !.endReason = "timeout"]]
             /\ lastGameOver' = [lastGameOver EXCEPT ![g] =
                  [winner |-> winner, result |-> ResultOf(winner),
                   reason |-> "timeout"]]
     ELSE UNCHANGED <<profile, ratingUpdates, durable, live, lastGameOver>>

\* --------------------------------------------------------------- actions
\* time passes
Advance ==
  /\ UNCHANGED matchVars
  /\ UNCHANGED roomVars
  /\ now < MaxNow
  /\ now' = now + StepMs
  /\ UNCHANGED <<live, durable, profile, ratingUpdates, clock, handlers,
                 moveCmds, accepted, lastGameOver>>
  /\ UNCHANGED auxVars

\* DynamicMatchMaking.createGameForPlayers: the MongoDB document and the
\* Redis hash of a new game g between searcher p1 and opponent p2
createGameForPlayers(g, p1, p2, p1White, tc) ==
  LET whitePlayerId == IF p1White THEN p1 ELSE p2
      info ==
        <<[userId |-> p1,
           color |-> IF p1 = whitePlayerId THEN "white" ELSE "black"],
          [userId |-> p2,
           color |-> IF p2 = whitePlayerId THEN "white" ELSE "black"]>>
  IN /\ durable' = [durable EXCEPT ![g] =
          [NoDurable EXCEPT !.exists = TRUE, !.players = info,
                            !.timeControl = tc]]
     /\ live' = [live EXCEPT ![g] =
          [NoLive EXCEPT !.exists = TRUE, !.playerInfo = info,
                         !.timeLeft = timeControlToMs(tc),
                         !.increment = tc.increment,
                         !.lastMovePlayedAt = now]]

\* a game comes out of the matchmaker
CreateGame(g, p1, p2, p1White, tc) ==
  /\ UNCHANGED matchVars
  /\ ~live[g].exists
  /\ p1 # p2
  /\ createGameForPlayers(g, p1, p2, p1White, tc)
  /\ UNCHANGED playVars
  /\ UNCHANGED auxVars

\* MessageHandler.emitToRoom on node n, io.to(roomId).emit on the node's own
\* socket.io server, which is created without an adapter: the nodes whose
\* sockets in room g get the message
emitToRoom(n, g) == {m \in Nodes : m = n /\ g \in rooms[m]}

\* gameHandler handleGameStart: any socket joins the room and (re)starts the
\* node's time tracking of the game
StartGame(n, g) ==
  /\ UNCHANGED matchVars
  /\ rooms' = [rooms EXCEPT ![n] = @ \cup {g}]
  /\ IF live[g].exists
     THEN /\ clock' = [clock EXCEPT ![n][g] =
                 [tracked |-> TRUE, lastMoveTime |-> now, isActive |-> TRUE,
                  currentTurn |-> live[g].turn]]
          /\ handlers' = OrphanRefs(n, g)
     ELSE UNCHANGED <<clock, handlers>>
  /\ UNCHANGED <<now, live, durable, profile, ratingUpdates, moveCmds,
                 accepted, lastGameOver>>
  /\ UNCHANGED auxVars

\* TimeManager.resumeGameTimer on node n: the GameTimeState of a paused game
resumeGameTimer(ts) ==
  IF ts.tracked /\ ~ts.isActive
  THEN [ts EXCEPT !.isActive = TRUE, !.lastMoveTime = now]
  ELSE ts

\* gameHandler handleRejoin: a player of the game rejoins; the timer of a game
\* that is not over is resumed
Rejoin(n, u, g) ==
  /\ UNCHANGED matchVars
  /\ live[g].exists
  /\ FindPlayer(live[g].playerInfo, u) # 0
  /\ ReplayOk(live[g].moves)
  /\ rooms' = [rooms EXCEPT ![n] = @ \cup {g}]
  /\ IF ~live[g].gameOver
     THEN clock' = [clock EXCEPT ![n][g] = resumeGameTimer(@)]
     ELSE UNCHANGED clock
  /\ UNCHANGED <<now, live, durable, profile, ratingUpdates, handlers,
                 moveCmds, accepted, lastGameOver>>
  /\ UNCHANGED auxVars

\* TimeManager.pauseGameTimer on node n: the tracked game stops being active;
\* nothing else is written
PauseGame(n, g) ==
  /\ UNCHANGED matchVars
  /\ UNCHANGED roomVars
  /\ clock[n][g].tracked
  /\ clock' = [clock EXCEPT ![n][g] = [@ EXCEPT !.isActive = FALSE]]
  /\ UNCHANGED <<now, live, durable, profile, ratingUpdates, handlers,
                 moveCmds, accepted, lastGameOver>>
  /\ UNCHANGED auxVars

\* gameHandler handleRequestTimeSync: the times are computed and emitted to
\* the socket; nothing is written
RequestTimeSync(n, g) ==
  /\ live[g].exists
  /\ calculateCurrentTime(n, g, "white") >= 0
  /\ calculateCurrentTime(n, g, "black") >= 0
  /\ UNCHANGED vars

\* TimeManager.checkGameTimeout, one game of a scanner tick of node n
CheckGameTimeout(n, g) ==
  /\ UNCHANGED matchVars
  /\ UNCHANGED roomVars
  /\ clock[n][g].tracked /\ clock[n][g].isActive
  /\ ratingUpdates[g] < MaxRatingUpdates
  /\ IF calculateCurrentTime(n, g, clock[n][g].currentTurn) <= 0
     THEN handleTimeUp(n, g, clock[n][g].currentTurn)
     ELSE UNCHANGED <<clock, handlers, profile, ratingUpdates, durable, live,
                      lastGameOver>>
  /\ UNCHANGED <<now, moveCmds, accepted>>
  /\ UNCHANGED auxVars

\* gameHandler handleTimeUp -> TimeManager.handleClientTimeUpReport
TimeUpReport(n, u, g, c) ==
  /\ UNCHANGED matchVars
  /\ UNCHANGED roomVars
  /\ live[g].exists
  /\ ratingUpdates[g] < MaxRatingUpdates
  /\ IF /\ FindPlayer(live[g].playerInfo, u) # 0
        /\ calculateCurrentTime(n, g, c) <= ToleranceMs
     THEN handleTimeUp(n, g, c)
     ELSE UNCHANGED <<clock, handlers, profile, ratingUpdates, durable, live,
                      lastGameOver>>
  /\ UNCHANGED <<now, moveCmds, accepted>>
  /\ UNCHANGED auxVars

\* gameHandler handleResign -> ChessGameService.handleResignation
Resign(n, u, g) ==
  /\ UNCHANGED matchVars
  /\ UNCHANGED roomVars
  /\ live[g].exists
  /\ ratingUpdates[g] < MaxRatingUpdates
  /\ LET i == FindPlayer(live[g].playerInfo, u)
     IN IF i # 0 /\ ReplayOk(live[g].moves)
        THEN LET color == live[g].playerInfo[i].color
                 winner == getOppositeColor(color)
             IN /\ updatePlayerRatings(g, winner)
                /\ durable' = [durable EXCEPT ![g] =
                     [@ EXCEPT !.status = "completed", !.winner = winner,
                               !.reason = "resignation",
                               !.score = ResultOf(winner)]]
                /\ stopGameTimer(n, g)
                /\ lastGameOver' = [lastGameOver EXCEPT ![g] =
                     [winner |-> winner, result |-> "absent",
                      reason |-> "resignation"]]
        ELSE UNCHANGED <<profile, ratingUpdates, durable, clock, handlers,
                         lastGameOver>>
  /\ UNCHANGED <<now, live, moveCmds, accepted>>
  /\ UNCHANGED auxVars

\* gameHandler handleAcceptDraw: the document is marked completed (its result
\* replaced by an object without winner, reason or score), the timer stopped
\* and the draw broadcast
AcceptDraw(n, u, g) ==
  /\ UNCHANGED matchVars
  /\ UNCHANGED roomVars
  /\ live[g].exists
  /\ IF FindPlayer(live[g].playerInfo, u) # 0
     THEN /\ durable' = [durable EXCEPT ![g] =
               [@ EXCEPT !.status = "completed", !.winner = "unset",
                         !.reason = "unset", !.score = "unset"]]
          /\ stopGameTimer(n, g)
          /\ lastGameOver' = [lastGameOver EXCEPT ![g] =
               [winner |-> "null", result |-> "1/2-1/2",
                reason |-> "agreement"]]
     ELSE UNCHANGED <<durable, clock, handlers, lastGameOver>>
  /\ UNCHANGED <<now, live, profile, ratingUpdates, moveCmds, accepted>>
  /\ UNCHANGED auxVars

\* gameHandler handleAcceptRematch: user u accepts a rematch of the completed
\* game g; the players of its document get a new game with the colours
\* swapped and the time control of the original
AcceptRematch(u, g) ==
  /\ durable[g].exists
  /\ durable[g].status = "completed"
  /\ LET players == durable[g].players
         i == FindPlayer(players, u)
         others == {j \in DOMAIN players : players[j].userId # u}
     IN /\ i # 0
        /\ others # {}
        /\ LET j == CHOOSE k \in others : \A m \in others : k <= m
               info == <<[userId |-> players[i].userId,
                          color |-> getOppositeColor(players[i].color)],
                         [userId |-> players[j].userId,
                          color |-> getOppositeColor(players[j].color)]>>
           IN \E g2 \in GameIds :
                /\ ~live[g2].exists
                /\ \A k \in 1..(g2 - 1) : live[k].exists
                /\ durable' = [durable EXCEPT ![g2] =
                     [NoDurable EXCEPT !.exists = TRUE, !.players = info,
                                       !.timeControl = durable[g].timeControl]]
                /\ live' = [live EXCEPT ![g2] =
                     [NoLive EXCEPT !.exists = TRUE, !.playerInfo = info,
                        !.timeLeft = timeControlToMs(durable[g].timeControl),
                        !.increment = durable[g].timeControl.increment,
                        !.lastMovePlayedAt = now]]
  /\ UNCHANGED matchVars
  /\ UNCHANGED playVars
  /\ UNCHANGED auxVars

\* ------------------------------------------------- handleMove, the pieces
\* the time addMoveToGameHash leaves the mover
DeductedTime(timeLeft, timeElapsed, incMs) ==
  Max(0, timeLeft - Max(0, timeElapsed - incMs))

\* addMoveToGameHash at time t: the fields hmset writes, computed from the
\* hash gs that hgetall returned
addMoveToGameHash(gs, san, playedBy, t) ==
  [moves |-> Append(gs.moves, san),
   timeLeft |-> [gs.timeLeft EXCEPT ![playedBy] =
                   DeductedTime(@, t - gs.lastMovePlayedAt,
                                gs.increment * 1000)],
   turn |-> getOppositeColor(playedBy),
   lastMovePlayedAt |-> t]

\* the time updateTimeAfterMove gives the mover
TimeAfterMove(timeLeft, timeElapsed, incMs) ==
  Max(0, timeLeft - timeElapsed + incMs)

\* TimeManager.updateTimeAfterMove: the fields updateGameHash writes, computed
\* from the hash gs that getGameHash returned and the GameTimeState ts
updateTimeAfterMove(gs, ts, movingPlayer, moveTimestamp) ==
  [timeLeft |-> [gs.timeLeft EXCEPT ![movingPlayer] =
                   TimeAfterMove(@, moveTimestamp - ts.lastMoveTime,
                                 gs.increment * 1000)],
   lastMovePlayedAt |-> moveTimestamp,
   turn |-> getOppositeColor(movingPlayer)]

\* what handleMove checks before addMoveToGameHash: the sender is a player,
\* the stored moves replay, the replayed position gives the sender the move
\* and the move is legal in it
MoveChecks(gs, u, san) ==
  /\ gs.exists
  /\ FindPlayer(gs.playerInfo, u) # 0
  /\ ReplayOk(gs.moves)
  /\ EngineTurn(gs.moves) = gs.playerInfo[FindPlayer(gs.playerInfo, u)].color
  /\ LegalMove(gs.moves, san)

\* the payload of the game_over that handleMove emits
MoveGameOver(st) ==
  [winner |-> st.winner, result |-> st.result, reason |-> st.reason]

\* gameHandler handleMove with no other handler running between its awaits
Move(n, u, g, san) ==
  /\ UNCHANGED matchVars
  /\ Quiet
  /\ live[g].exists
  /\ Len(live[g].moves) < MaxMoves
  /\ LET gs0 == live[g]
         color == gs0.playerInfo[FindPlayer(gs0.playerInfo, u)].color
     IN IF MoveChecks(gs0, u, san) /\ color = gs0.turn
        THEN LET hist == Append(gs0.moves, san)
                 w1 == addMoveToGameHash(gs0, san, color, now)
                 gs1 == [gs0 EXCEPT !.moves = w1.moves,
                                    !.timeLeft = w1.timeLeft,
                                    !.turn = w1.turn,
                                    !.lastMovePlayedAt = w1.lastMovePlayedAt]
                 ts == clock[n][g]
                 w2 == updateTimeAfterMove(gs1, ts, color, now)
                 gs2 == IF ts.tracked
                        THEN [gs1 EXCEPT !.timeLeft = w2.timeLeft,
                                !.lastMovePlayedAt = w2.lastMovePlayedAt,
                                !.turn = w2.turn]
                        ELSE gs1
                 ts2 == IF ts.tracked
                        THEN [ts EXCEPT !.lastMoveTime = now,
                                        !.currentTurn = getOppositeColor(color)]
                        ELSE ts
                 st == GameStatus(hist)
             IN /\ live' = [live EXCEPT ![g] =
                     [gs2 EXCEPT !.pgn = Pgn(hist), !.turn = EngineTurn(hist)]]
                /\ accepted' = [accepted EXCEPT ![g] =
                     Append(@, [color |-> color, ply |-> Len(hist),
                                san |-> san])]
                /\ IF st.isGameOver
                   THEN /\ clock' = [clock EXCEPT ![n][g] = NoClock]
                        /\ lastGameOver' = [lastGameOver EXCEPT ![g] =
                             MoveGameOver(st)]
                   ELSE /\ clock' = [clock EXCEPT ![n][g] = ts2]
                        /\ UNCHANGED lastGameOver
        ELSE UNCHANGED <<live, accepted, clock, lastGameOver>>
  /\ UNCHANGED <<now, durable, profile, ratingUpdates, handlers, moveCmds,
                 rooms>>
  /\ UNCHANGED auxVars

\* ------------------------------------------- gameHandler handleMove, by step
LowestIdle(h) ==
  /\ handlers[h].pc = "idle"
  /\ \A k \in 1..(h - 1) : handlers[k].pc # "idle"

\* the move message arrives: getGameHash and the lookup of the sender among
\* the players; an error is answered on the socket alone
MoveBegin(h, n, u, g, san) ==
  /\ UNCHANGED matchVars
  /\ UNCHANGED roomVars
  /\ LowestIdle(h)
  /\ moveCmds < MaxMoveCmds
  /\ moveCmds' = moveCmds + 1
  /\ LET i == IF live[g].exists THEN FindPlayer(live[g].playerInfo, u) ELSE 0
     IN IF i # 0
        THEN handlers' = [handlers EXCEPT ![h] =
               [Idle EXCEPT !.pc = "load", !.node = n, !.g = g, !.san = san,
                            !.color = live[g].playerInfo[i].color]]
        ELSE UNCHANGED handlers
  /\ UNCHANGED <<now, live, durable, profile, ratingUpdates, clock, accepted,
                 lastGameOver>>
  /\ UNCHANGED auxVars

\* ChessGameService.fromGameId (getGameHash and the replay) and makeMove on
\* the local chess instance: the turn of the replayed position, then the
\* legality of the move; move.timeStamp is taken
MoveLoad(h) ==
  /\ UNCHANGED matchVars
  /\ UNCHANGED roomVars
  /\ handlers[h].pc = "load"
  /\ LET r == handlers[h]
         moves == live[r.g].moves
     IN IF /\ ReplayOk(moves)
           /\ EngineTurn(moves) = r.color
           /\ LegalMove(moves, r.san)
        THEN handlers' = [handlers EXCEPT ![h] =
               [r EXCEPT !.pc = "hgetall", !.hist = Append(moves, r.san),
                         !.ts = now]]
        ELSE handlers' = [handlers EXCEPT ![h] = Idle]
  /\ UNCHANGED <<now, live, durable, profile, ratingUpdates, clock, moveCmds,
                 accepted, lastGameOver>>
  /\ UNCHANGED auxVars

\* addMoveToGameHash, redis.hgetall: the turn check on the hash and the new
\* field values, computed from what was read
MoveHgetall(h) ==
  /\ UNCHANGED matchVars
  /\ UNCHANGED roomVars
  /\ handlers[h].pc = "hgetall"
  /\ LET r == handlers[h]
         gs == live[r.g]
         w == addMoveToGameHash(gs, r.san, r.color, now)
     IN IF r.color = gs.turn
        THEN handlers' = [handlers EXCEPT ![h] =
               [r EXCEPT !.pc = "hmset", !.wMoves = w.moves,
                         !.wTimeLeft = w.timeLeft,
                         !.wLast = w.lastMovePlayedAt]]
        ELSE handlers' = [handlers EXCEPT ![h] = Idle]
  /\ UNCHANGED <<now, live, durable, profile, ratingUpdates, clock, moveCmds,
                 accepted, lastGameOver>>
  /\ UNCHANGED auxVars

\* addMoveToGameHash, redis.hmset: moves, timeLeft, turn and lastMovePlayedAt
\* are written as computed
MoveHmset(h) ==
  /\ UNCHANGED matchVars
  /\ UNCHANGED roomVars
  /\ handlers[h].pc = "hmset"
  /\ LET r == handlers[h]
     IN /\ live' = [live EXCEPT ![r.g] =
             [@ EXCEPT !.moves = r.wMoves, !.timeLeft = r.wTimeLeft,
                       !.turn = getOppositeColor(r.color),
                       !.lastMovePlayedAt = r.wLast]]
        /\ handlers' = [handlers EXCEPT ![h] =
             [r EXCEPT !.pc = "utRead", !.wMoves = <<>>, !.wLast = 0,
                       !.wTimeLeft = Idle.wTimeLeft]]
  /\ UNCHANGED <<now, durable, profile, ratingUpdates, clock, moveCmds,
                 accepted, lastGameOver>>
  /\ UNCHANGED auxVars

\* TimeManager.updateTimeAfterMove, getGameHash and gameStates.get: nothing is
\* done when the node does not track the game
MoveUtRead(h) ==
  /\ UNCHANGED matchVars
  /\ UNCHANGED roomVars
  /\ handlers[h].pc = "utRead"
  /\ LET r == handlers[h]
         ts == clock[r.node][r.g]
         w == updateTimeAfterMove(live[r.g], ts, r.color, r.ts)
     IN IF ts.tracked
        THEN handlers' = [handlers EXCEPT ![h] =
               [r EXCEPT !.pc = "utWrite", !.tsRef = "live",
                         !.wTimeLeft = w.timeLeft]]
        ELSE handlers' = [handlers EXCEPT ![h] = [r EXCEPT !.pc = "pgn"]]
  /\ UNCHANGED <<now, live, durable, profile, ratingUpdates, clock, moveCmds,
                 accepted, lastGameOver>>
  /\ UNCHANGED auxVars

\* TimeManager.updateTimeAfterMove, updateGameHash and the update of the
\* GameTimeState object read before
MoveUtWrite(h) ==
  /\ UNCHANGED matchVars
  /\ UNCHANGED roomVars
  /\ handlers[h].pc = "utWrite"
  /\ LET r == handlers[h]
     IN /\ live' = [live EXCEPT ![r.g] =
             [@ EXCEPT !.timeLeft = r.wTimeLeft, !.lastMovePlayedAt = r.ts,
                       !.turn = getOppositeColor(r.color)]]
        /\ IF r.tsRef = "live"
           THEN clock' = [clock EXCEPT ![r.node][r.g] =
                  [@ EXCEPT !.lastMoveTime = r.ts,
                            !.currentTurn = getOppositeColor(r.color)]]
           ELSE UNCHANGED clock
        /\ handlers' = [handlers EXCEPT ![h] =
             [r EXCEPT !.pc = "pgn", !.tsRef = "none",
                       !.wTimeLeft = Idle.wTimeLeft]]
  /\ UNCHANGED <<now, durable, profile, ratingUpdates, moveCmds, accepted,
                 lastGameOver>>
  /\ UNCHANGED auxVars

\* handleMove, updateGameHash({pgn, turn}) from the local chess instance
MovePgn(h) ==
  /\ UNCHANGED matchVars
  /\ UNCHANGED roomVars
  /\ handlers[h].pc = "pgn"
  /\ LET r == handlers[h]
     IN /\ live' = [live EXCEPT ![r.g] =
             [@ EXCEPT !.pgn = Pgn(r.hist), !.turn = EngineTurn(r.hist)]]
        /\ handlers' = [handlers EXCEPT ![h] =
             [r EXCEPT !.pc = "emit", !.wTimeLeft = Idle.wTimeLeft]]
  /\ UNCHANGED <<now, durable, profile, ratingUpdates, clock, moveCmds,
                 accepted, lastGameOver>>
  /\ UNCHANGED auxVars

\* handleMove, the last getGameHash and the broadcast to the room: game_over
\* (after stopGameTimer) when the move ended the game, the move otherwise
MoveEmit(h) ==
  /\ UNCHANGED matchVars
  /\ handlers[h].pc = "emit"
  /\ LET r == handlers[h]
         st == GameStatus(r.hist)
     IN /\ accepted' = [accepted EXCEPT ![r.g] =
             Append(@, [color |-> r.color, ply |-> Len(r.hist),
                        san |-> r.san])]
        /\ IF st.isGameOver
           THEN /\ clock' = [clock EXCEPT ![r.node][r.g] = NoClock]
                /\ handlers' = [OrphanRefs(r.node, r.g) EXCEPT ![h] = Idle]
                /\ lastGameOver' = [lastGameOver EXCEPT ![r.g] =
                     MoveGameOver(st)]
           ELSE /\ handlers' = [handlers EXCEPT ![h] = Idle]
                /\ UNCHANGED <<clock, lastGameOver>>
  /\ UNCHANGED <<now, live, durable, profile, ratingUpdates, moveCmds, rooms>>
  /\ UNCHANGED auxVars

\* ------------------------------------------------------- the game handlers
\* the life of a game: every handler runs from its message to its end
Next ==
  \/ Advance
  \/ \E g \in PlayGames, pr \in PlayPairs, w \in SearcherWhite, tc \in TimeControls :
       CreateGame(g, pr[1], pr[2], w, tc)
  \/ \E n \in Nodes, g \in PlayGames : StartGame(n, g)
  \/ \E n \in Nodes, u \in Users, g \in PlayGames : Rejoin(n, u, g)
  \/ \E n \in Nodes, g \in PlayGames : RequestTimeSync(n, g)
  \/ \E n \in Nodes, g \in PlayGames : CheckGameTimeout(n, g)
  \/ \E n \in Nodes, u \in Users, g \in PlayGames, c \in Colors :
       TimeUpReport(n, u, g, c)
  \/ \E n \in Nodes, u \in Users, g \in PlayGames : Resign(n, u, g)
  \/ \E n \in Nodes, u \in Users, g \in PlayGames : AcceptDraw(n, u, g)
  \/ \E n \in Nodes, u \in Users, g \in PlayGames, san \in Sans \cup BadSans :
       Move(n, u, g, san)

Spec == Init /\ [][Next]_vars

\* move handlers suspended at their awaits, running against each other and
\* against start_game, within one instant
NextRace ==
  \/ \E g \in PlayGames, pr \in PlayPairs, w \in SearcherWhite, tc \in TimeControls :
       CreateGame(g, pr[1], pr[2], w, tc)
  \/ \E n \in Nodes, g \in PlayGames : StartGame(n, g)
  \/ \E h \in Slots, n \in Nodes, u \in Users, g \in PlayGames,
        san \in Sans \cup BadSans : MoveBegin(h, n, u, g, san)
  \/ \E h \in Slots : MoveLoad(h)
  \/ \E h \in Slots : MoveHgetall(h)
  \/ \E h \in Slots : MoveHmset(h)
  \/ \E h \in Slots : MoveUtRead(h)
  \/ \E h \in Slots : MoveUtWrite(h)
  \/ \E h \in Slots : MovePgn(h)
  \/ \E h \in Slots : MoveEmit(h)

SpecRace == Init /\ [][NextRace]_vars

\* the clock of a game on its nodes: started, paused, resumed, read and moved
\* on as time passes
NextClock ==
  \/ Advance
  \/ \E g \in PlayGames, pr \in PlayPairs, w \in SearcherWhite, tc \in TimeControls :
       CreateGame(g, pr[1], pr[2], w, tc)
  \/ \E n \in Nodes, g \in PlayGames : StartGame(n, g)
  \/ \E n \in Nodes, g \in PlayGames : PauseGame(n, g)
  \/ \E n \in Nodes, u \in Users, g \in PlayGames : Rejoin(n, u, g)
  \/ \E n \in Nodes, g \in PlayGames : RequestTimeSync(n, g)
  \/ \E n \in Nodes, u \in Users, g \in PlayGames, san \in Sans \cup BadSans :
       Move(n, u, g, san)

SpecClock == Init /\ [][NextClock]_vars

\* ------------------------------------------------------ DynamicMatchMaking
INITIAL_RANGE == 60
RANGE_EXPANSION == 60
SEARCH_INTERVAL == 3000
MAX_RANGE == 600

\* the rating a user searches with, the score of the user's queue entry
UserRating == userRating

\* redis.zrangebyscore: the members with a score in [min, max], by score
RECURSIVE ByScore(_)
ByScore(S) ==
  IF S = {} THEN <<>>
  ELSE LET m == CHOOSE x \in S : \A y \in S : UserRating[x] <= UserRating[y]
       IN <<m>> \o ByScore(S \ {m})

getOpponentInRange(min, max) ==
  ByScore({u \in queue : min <= UserRating[u] /\ UserRating[u] <= max})

\* a range that is one expansion ahead of the search's duration
ExpandedRangeAhead(searchStartTime) ==
  Min(INITIAL_RANGE
        + ((now - searchStartTime) \div SEARCH_INTERVAL + 1) * RANGE_EXPANSION,
      MAX_RANGE)

\* the range of a search that started at searchStartTime
ExpandedRange(searchStartTime) ==
  Min(INITIAL_RANGE
        + ((now - searchStartTime) \div SEARCH_INTERVAL) * RANGE_EXPANSION,
      MAX_RANGE)

\* match_lock:<the two user ids, sorted>
LockKey(u, o) == {u, o}

\* what DynamicMatchMaking.cancelSearch leaves of the queue, the player
\* hashes and the sessions: with a session the user is removed from the queue
\* and the user's player hash and session are deleted; without, nothing is done
AfterCancel(u) ==
  IF session[u].exists
  THEN [queue |-> queue \ {u},
        playerHash |-> [playerHash EXCEPT ![u] = FALSE],
        session |-> [session EXCEPT ![u] = NoSession]]
  ELSE [queue |-> queue, playerHash |-> playerHash, session |-> session]

\* DynamicMatchMaking.cancelSearch
cancelSearch(u) ==
  /\ queue' = AfterCancel(u).queue
  /\ playerHash' = AfterCancel(u).playerHash
  /\ session' = AfterCancel(u).session

\* the candidate loop without the skip of the searcher itself
NextCandidateNoSkip(r, cs) ==
  IF cs = <<>> THEN NoTick
  ELSE [r EXCEPT !.pc = "hash", !.cands = cs]

\* the loop of processSearchRequest goes on with the candidates cs: itself is
\* skipped, and with no candidate left the search returns without a match
NextCandidate(r, cs) ==
  LET rest == IF cs # <<>> /\ Head(cs) = r.user THEN Tail(cs) ELSE cs
  IN IF rest = <<>> THEN NoTick
     ELSE [r EXCEPT !.pc = "hash", !.cands = rest]

LowestIdleTick(t) ==
  /\ ticks[t].pc = "idle"
  /\ \A k \in 1..(t - 1) : ticks[k].pc # "idle"

\* the search_match message of user u: without a search session the player
\* hash is created and startSearch stores the session and queues the user;
\* processSearchRequest follows
SearchMatch(t, u, tc) ==
  /\ LowestIdleTick(t)
  /\ IF ~session[u].exists
     THEN /\ searches["a"] + searches["b"] + searches["c"] < MaxSearches
          /\ searches' = [searches EXCEPT ![u] = @ + 1]
          /\ playerHash' = [playerHash EXCEPT ![u] = TRUE]
          /\ session' = [session EXCEPT ![u] =
               [exists |-> TRUE, initialRating |-> UserRating[u],
                currentRange |-> INITIAL_RANGE, searchStartTime |-> now,
                timeControl |-> tc]]
          /\ queue' = queue \cup {u}
     ELSE UNCHANGED <<searches, playerHash, session, queue>>
  /\ ticks' = [ticks EXCEPT ![t] = [NoTick EXCEPT !.pc = "session", !.user = u]]
  /\ UNCHANGED <<locks, live, durable, playVars,
                 matchFound>>
  /\ UNCHANGED auxVars

\* processSearchRequest, redis.get of the session and the range expansion
TickSession(t) ==
  /\ ticks[t].pc = "session"
  /\ LET r == ticks[t]
         se == session[r.user]
         newRange == ExpandedRange(se.searchStartTime)
     IN IF ~se.exists
        THEN /\ ticks' = [ticks EXCEPT ![t] = NoTick]
             /\ UNCHANGED session
        ELSE /\ ticks' = [ticks EXCEPT ![t] =
                  [r EXCEPT !.pc = "scan",
                            !.currentRange = Max(newRange, se.currentRange),
                            !.timeControl = se.timeControl]]
             /\ session' = [session EXCEPT ![r.user].currentRange =
                              Max(newRange, @)]
  /\ UNCHANGED <<queue, playerHash, locks, searches, live, durable, playVars,
                 matchFound>>
  /\ UNCHANGED auxVars

\* processSearchRequest, getOpponentInRange
TickScan(t) ==
  /\ ticks[t].pc = "scan"
  /\ LET r == ticks[t]
     IN ticks' = [ticks EXCEPT ![t] =
          NextCandidate(r, getOpponentInRange(
                             UserRating[r.user] - r.currentRange,
                             UserRating[r.user] + r.currentRange))]
  /\ UNCHANGED <<queue, session, playerHash, locks, searches, live, durable,
                 playVars,
                 matchFound>>
  /\ UNCHANGED auxVars

\* processSearchRequest, getPlayerHash of the candidate: a candidate without
\* a player hash is removed from the queue
TickHash(t) ==
  /\ ticks[t].pc = "hash"
  /\ LET r == ticks[t]
         o == Head(r.cands)
     IN IF playerHash[o]
        THEN /\ ticks' = [ticks EXCEPT ![t] = [r EXCEPT !.pc = "inQueue"]]
             /\ UNCHANGED queue
        ELSE /\ ticks' = [ticks EXCEPT ![t] = NextCandidate(r, Tail(r.cands))]
             /\ queue' = queue \ {o}
  /\ UNCHANGED <<session, playerHash, locks, searches, live, durable, playVars,
                 matchFound>>
  /\ UNCHANGED auxVars

\* processSearchRequest, isPlayerInQueue of the candidate
TickInQueue(t) ==
  /\ ticks[t].pc = "inQueue"
  /\ LET r == ticks[t]
         o == Head(r.cands)
     IN IF o \in queue
        THEN ticks' = [ticks EXCEPT ![t] = [r EXCEPT !.pc = "lock"]]
        ELSE ticks' = [ticks EXCEPT ![t] = NextCandidate(r, Tail(r.cands))]
  /\ UNCHANGED <<queue, session, playerHash, locks, searches, live, durable,
                 playVars,
                 matchFound>>
  /\ UNCHANGED auxVars

\* processSearchRequest, redis.set(lockKey, lockValue, "EX", 5, "NX")
TickLock(t) ==
  /\ ticks[t].pc = "lock"
  /\ LET r == ticks[t]
         k == LockKey(r.user, Head(r.cands))
     IN IF k \in locks
        THEN /\ ticks' = [ticks EXCEPT ![t] = NextCandidate(r, Tail(r.cands))]
             /\ UNCHANGED locks
        ELSE /\ ticks' = [ticks EXCEPT ![t] = [r EXCEPT !.pc = "recheck"]]
             /\ locks' = locks \cup {k}
  /\ UNCHANGED <<queue, session, playerHash, searches, live, durable, playVars,
                 matchFound>>
  /\ UNCHANGED auxVars

\* processSearchRequest, the double-check after the lock: both players are
\* looked up in the queue, nothing is removed; the lock is deleted when one of
\* them is missing
TickRecheck(t) ==
  /\ ticks[t].pc = "recheck"
  /\ LET r == ticks[t]
         o == Head(r.cands)
     IN IF r.user \in queue /\ o \in queue
        THEN /\ ticks' = [ticks EXCEPT ![t] = [r EXCEPT !.pc = "zrem"]]
             /\ UNCHANGED locks
        ELSE /\ ticks' = [ticks EXCEPT ![t] = NextCandidate(r, Tail(r.cands))]
             /\ locks' = locks \ {LockKey(r.user, o)}
  /\ UNCHANGED <<queue, session, playerHash, searches, live, durable, playVars,
                 matchFound>>
  /\ UNCHANGED auxVars

\* processSearchRequest, removePlayerFromQueue of both players
TickZrem(t) ==
  /\ ticks[t].pc = "zrem"
  /\ LET r == ticks[t]
     IN /\ queue' = queue \ {r.user, Head(r.cands)}
        /\ ticks' = [ticks EXCEPT ![t] = [r EXCEPT !.pc = "create"]]
  /\ UNCHANGED <<session, playerHash, locks, searches, live, durable, playVars,
                 matchFound>>
  /\ UNCHANGED auxVars

\* processSearchRequest, createGameForPlayers: the new game gets a fresh id
TickCreate(t, w) ==
  /\ ticks[t].pc = "create"
  /\ \E g \in GameIds :
       /\ ~live[g].exists
       /\ \A k \in 1..(g - 1) : live[k].exists
       /\ createGameForPlayers(g, ticks[t].user, Head(ticks[t].cands), w,
                               ticks[t].timeControl)
  /\ ticks' = [ticks EXCEPT ![t] =
       [@ EXCEPT !.pc = "cancelSelf",
                 !.gameId = CHOOSE g \in GameIds :
                              /\ ~live[g].exists
                              /\ \A k \in 1..(g - 1) : live[k].exists]]
  /\ UNCHANGED <<queue, session, playerHash, locks, searches, playVars,
                 matchFound>>
  /\ UNCHANGED auxVars

\* processSearchRequest, cancelSearch(userId)
TickCancelSelf(t) ==
  /\ ticks[t].pc = "cancelSelf"
  /\ cancelSearch(ticks[t].user)
  /\ ticks' = [ticks EXCEPT ![t] = [@ EXCEPT !.pc = "cancelOpp"]]
  /\ UNCHANGED <<locks, searches, live, durable, playVars,
                 matchFound>>
  /\ UNCHANGED auxVars

\* processSearchRequest, cancelSearch(opponentId)
TickCancelOpp(t) ==
  /\ ticks[t].pc = "cancelOpp"
  /\ cancelSearch(Head(ticks[t].cands))
  /\ ticks' = [ticks EXCEPT ![t] = [@ EXCEPT !.pc = "unlock"]]
  /\ UNCHANGED <<locks, searches, live, durable, playVars,
                 matchFound>>
  /\ UNCHANGED auxVars

\* the node that holds the socket of each user: a and c are connected to one
\* node, b to the other
SocketNode == [u \in Users |-> IF u = "b" THEN "n2" ELSE "n1"]

\* io.in("user:<u>").fetchSockets() on node n, whose socket.io server has no
\* adapter: the sockets of u that the node itself holds
fetchSockets(n, u) == IF SocketNode[u] = n THEN {u} ELSE {}

\* the users that get the match_found of the search_match handler of user u,
\* matched with o: the handler's own socket and the opponent's sockets that
\* fetchSockets returns; the matchmaking event the handler publishes has no
\* subscriber, RedisPubSubService.initialize being called nowhere
MatchFoundTo(u, o) == {u} \cup fetchSockets(SocketNode[u], o)

\* the search_match handler after processSearchRequest returned the match of
\* u and o with game g: match_found is emitted with the gameId
emitMatchFound(u, o, g) ==
  matchFound' = [x \in Users |->
                   IF x \in MatchFoundTo(u, o) THEN g ELSE matchFound[x]]

\* processSearchRequest, redis.del(lockKey) and the return of the match; the
\* search_match handler then emits match_found with the gameId
TickUnlock(t) ==
  /\ ticks[t].pc = "unlock"
  /\ locks' = locks \ {LockKey(ticks[t].user, Head(ticks[t].cands))}
  /\ emitMatchFound(ticks[t].user, Head(ticks[t].cands), ticks[t].gameId)
  /\ ticks' = [ticks EXCEPT ![t] = NoTick]
  /\ UNCHANGED <<queue, session, playerHash, searches, live, durable, playVars>>
  /\ UNCHANGED auxVars

\* the 5 s expiry of a match_lock key
LockExpire(k) ==
  /\ k \in locks
  /\ locks' = locks \ {k}
  /\ UNCHANGED <<queue, session, playerHash, ticks, searches, live, durable,
                 playVars,
                 matchFound>>
  /\ UNCHANGED auxVars

\* the cancel_search message of user u
CancelSearch(u) ==
  /\ cancelSearch(u)
  /\ UNCHANGED <<locks, ticks, searches, live, durable, playVars,
                 matchFound>>
  /\ UNCHANGED auxVars

\* ---------------------------------------- a search, by step and over time
\* the users whose searches are followed over time: a and b come within
\* range of each other with the first expansion
SearchUsers == {"a", "b"}

\* time passes for the searches
AdvanceSearch ==
  /\ now < MaxSearchNow
  /\ now' = now + SearchStepMs
  /\ UNCHANGED <<live, durable, profile, ratingUpdates, clock, handlers,
                 moveCmds, accepted, lastGameOver>>
  /\ UNCHANGED matchVars
  /\ UNCHANGED roomVars
  /\ UNCHANGED auxVars

\* the search_match message of user u, getSearchStatus: with a session the
\* handler goes on to processSearchRequest, without one to startSearch
SearchBegin(t, u, tc) ==
  /\ LowestIdleTick(t)
  /\ searches["a"] + searches["b"] + searches["c"] < MaxSearches
  /\ searches' = [searches EXCEPT ![u] = @ + 1]
  /\ ticks' = [ticks EXCEPT ![t] =
       [NoTick EXCEPT !.pc = IF session[u].exists THEN "get" ELSE "start",
                      !.user = u, !.timeControl = tc]]
  /\ UNCHANGED <<queue, session, playerHash, locks, live, durable, playVars,
                 matchFound>>
  /\ UNCHANGED auxVars

\* the search_match handler without a session: createPlayerHash, then
\* startSearch stores a new session and adds the user to the queue
SearchStart(t) ==
  /\ ticks[t].pc = "start"
  /\ LET u == ticks[t].user
     IN /\ playerHash' = [playerHash EXCEPT ![u] = TRUE]
        /\ session' = [session EXCEPT ![u] =
             [exists |-> TRUE, initialRating |-> UserRating[u],
              currentRange |-> INITIAL_RANGE, searchStartTime |-> now,
              timeControl |-> ticks[t].timeControl]]
        /\ queue' = queue \cup {u}
  /\ ticks' = [ticks EXCEPT ![t] = [@ EXCEPT !.pc = "get"]]
  /\ UNCHANGED <<locks, searches, live, durable, playVars,
                 matchFound>>
  /\ UNCHANGED auxVars

\* processSearchRequest, redis.get of the session and the computation of the
\* range: a larger range is to be stored, otherwise the scan follows
TickGet(t) ==
  /\ ticks[t].pc = "get"
  /\ LET r == ticks[t]
         se == session[r.user]
         newRange == ExpandedRange(se.searchStartTime)
     IN IF ~se.exists
        THEN ticks' = [ticks EXCEPT ![t] = NoTick]
        ELSE ticks' = [ticks EXCEPT ![t] =
               [r EXCEPT !.pc = IF newRange > se.currentRange
                                THEN "expand" ELSE "scan",
                         !.currentRange = Max(newRange, se.currentRange),
                         !.searchStartTime = se.searchStartTime,
                         !.timeControl = se.timeControl]]
  /\ UNCHANGED <<queue, session, playerHash, locks, searches, live, durable,
                 playVars,
                 matchFound>>
  /\ UNCHANGED auxVars

\* processSearchRequest, redis.setex of the session that was read, with the
\* new range
TickExpand(t) ==
  /\ ticks[t].pc = "expand"
  /\ LET r == ticks[t]
     IN session' = [session EXCEPT ![r.user] =
          [exists |-> TRUE, initialRating |-> UserRating[r.user],
           currentRange |-> r.currentRange,
           searchStartTime |-> r.searchStartTime,
           timeControl |-> r.timeControl]]
  /\ ticks' = [ticks EXCEPT ![t] = [@ EXCEPT !.pc = "scan"]]
  /\ UNCHANGED <<queue, playerHash, locks, searches, live, durable, playVars,
                 matchFound>>
  /\ UNCHANGED auxVars

\* the 300 s expiry of a search_session key
SessionExpire(u) ==
  /\ session[u].exists
  /\ session' = [session EXCEPT ![u] = NoSession]
  /\ UNCHANGED <<queue, playerHash, locks, ticks, searches, live, durable,
                 playVars,
                 matchFound>>
  /\ UNCHANGED auxVars

\* the searches of two users over time, their handlers suspended at their
\* awaits
NextSearch ==
  \/ AdvanceSearch
  \/ \E t \in TickSlots, u \in SearchUsers, tc \in TimeControls :
       SearchBegin(t, u, tc)
  \/ \E t \in TickSlots : SearchStart(t)
  \/ \E t \in TickSlots : TickGet(t)
  \/ \E t \in TickSlots : TickExpand(t)
  \/ \E t \in TickSlots : TickScan(t)
  \/ \E t \in TickSlots : TickHash(t)
  \/ \E t \in TickSlots : TickInQueue(t)
  \/ \E t \in TickSlots : TickLock(t)
  \/ \E t \in TickSlots : TickRecheck(t)
  \/ \E t \in TickSlots : TickZrem(t)
  \/ \E t \in TickSlots, w \in SearcherWhite : TickCreate(t, w)
  \/ \E t \in TickSlots : TickCancelSelf(t)
  \/ \E t \in TickSlots : TickCancelOpp(t)
  \/ \E t \in TickSlots : TickUnlock(t)

SpecSearch == Init /\ [][NextSearch]_vars

\* the users whose searches are cancelled: a and c are within range of each
\* other from the start
CancelUsers == {"a", "c"}

\* searches that are cancelled or whose session expires, with the ticks
\* suspended at their awaits
NextCancel ==
  \/ \E t \in TickSlots, u \in CancelUsers, tc \in TimeControls :
       SearchMatch(t, u, tc)
  \/ \E t \in TickSlots : TickSession(t)
  \/ \E t \in TickSlots : TickScan(t)
  \/ \E t \in TickSlots : TickHash(t)
  \/ \E t \in TickSlots : TickInQueue(t)
  \/ \E t \in TickSlots : TickLock(t)
  \/ \E t \in TickSlots : TickRecheck(t)
  \/ \E t \in TickSlots : TickZrem(t)
  \/ \E t \in TickSlots, w \in SearcherWhite : TickCreate(t, w)
  \/ \E t \in TickSlots : TickCancelSelf(t)
  \/ \E t \in TickSlots : TickCancelOpp(t)
  \/ \E t \in TickSlots : TickUnlock(t)
  \/ \E u \in CancelUsers : CancelSearch(u)
  \/ \E u \in CancelUsers : SessionExpire(u)

SpecCancel == Init /\ [][NextCancel]_vars

\* the matchmaker: searches, ticks suspended at their awaits, lock expiry
NextMatch ==
  \/ \E t \in TickSlots, u \in Users, tc \in TimeControls : SearchMatch(t, u, tc)
  \/ \E t \in TickSlots : TickSession(t)
  \/ \E t \in TickSlots : TickScan(t)
  \/ \E t \in TickSlots : TickHash(t)
  \/ \E t \in TickSlots : TickInQueue(t)
  \/ \E t \in TickSlots : TickLock(t)
  \/ \E t \in TickSlots : TickRecheck(t)
  \/ \E t \in TickSlots : TickZrem(t)
  \/ \E t \in TickSlots, w \in SearcherWhite : TickCreate(t, w)
  \/ \E t \in TickSlots : TickCancelSelf(t)
  \/ \E t \in TickSlots : TickCancelOpp(t)
  \/ \E t \in TickSlots : TickUnlock(t)
  \/ \E k \in SUBSET Users : LockExpire(k)
  \/ \E u \in Users : CancelSearch(u)

SpecMatch == Init /\ [][NextMatch]_vars

\* how games come to be: the matchmaker's ticks, a game drawn by agreement
\* and the rematch of a completed game
NextCreate ==
  \/ \E t \in TickSlots, u \in Users, tc \in TimeControls : SearchMatch(t, u, tc)
  \/ \E t \in TickSlots : TickSession(t)
  \/ \E t \in TickSlots : TickScan(t)
  \/ \E t \in TickSlots : TickHash(t)
  \/ \E t \in TickSlots : TickInQueue(t)
  \/ \E t \in TickSlots : TickLock(t)
  \/ \E t \in TickSlots : TickRecheck(t)
  \/ \E t \in TickSlots : TickZrem(t)
  \/ \E t \in TickSlots, w \in SearcherWhite : TickCreate(t, w)
  \/ \E t \in TickSlots : TickCancelSelf(t)
  \/ \E t \in TickSlots : TickCancelOpp(t)
  \/ \E t \in TickSlots : TickUnlock(t)
  \/ \E n \in Nodes, u \in Users, g \in PlayGames : AcceptDraw(n, u, g)
  \/ \E u \in Users, g \in GameIds : AcceptRematch(u, g)

SpecCreate == Init /\ [][NextCreate]_vars

\* the players of game g
PlayersOf(g) == {live[g].playerInfo[i].userId : i \in DOMAIN live[g].playerInfo}

\* ------------------------------------------------- GameEventBatchProcessor
BATCH_SIZE == 100
BATCH_TIMEOUT == 5000
HIGH_PRIORITY_BATCH_SIZE == 10
HIGH_PRIORITY_TIMEOUT == 1000

\* the event types that end a game
EndingTypes == {"game_ended", "player_resigned", "draw_accepted"}

\* the clocks a move is published with: under and over 30 s a side
MoveTimeLefts == {[white |-> 20000, black |-> 20000],
                  [white |-> 300000, black |-> 300000]}

\* everything of the model that the batch processor leaves alone
stillVars == <<live, durable, profile, ratingUpdates, clock, handlers,
               moveCmds, accepted, lastGameOver, rooms, matchVars,
               consumerVars, replyVars, calcVars>>

Range(q) == {q[i] : i \in DOMAIN q}

Take(q, n) == SubSeq(q, 1, Min(n, Len(q)))

Drop(q, n) == SubSeq(q, Min(n, Len(q)) + 1, Len(q))

IsHigh(e) == e.priority = "HIGH"

NotHigh(e) == e.priority # "HIGH"

\* the processor as a value
Processor ==
  [eventBatch |-> eventBatch, batchTimer |-> batchTimer,
   highTimers |-> highTimers, handed |-> handed, lost |-> lost,
   flushing |-> flushing]

\* KafkaEnhancedChessGameService.getMoveEventPriority
getMoveEventPriority(timeLeft, isGameOver) ==
  IF isGameOver THEN "HIGH"
  ELSE IF timeLeft.white < 30000 \/ timeLeft.black < 30000 THEN "HIGH"
  ELSE IF timeLeft.white + timeLeft.black < 600000 THEN "MEDIUM"
  ELSE "MEDIUM"

\* sendBatch: the events go to publishGameEventsBatch; a failed publish is
\* logged and nothing more is done with its events
sendBatch(P, events, ok) ==
  [P EXCEPT !.handed = @ \o events,
            !.lost = IF ok THEN @ ELSE @ \cup Range(events)]

\* scheduleBatchProcessing: a timer is set unless batchTimer holds one
scheduleBatchProcessing(P) ==
  IF P.batchTimer # 0 THEN P
  ELSE [P EXCEPT !.batchTimer = now + BATCH_TIMEOUT]

\* processHighPriorityEvents: a full batch of HIGH events is sent at once,
\* fewer wait for a timer
processHighPriorityEvents(P, ok) ==
  LET high == SelectSeq(P.eventBatch, IsHigh)
      eventsToProcess == Take(high, HIGH_PRIORITY_BATCH_SIZE)
      NotTaken(e) == NotHigh(e) \/ e \notin Range(eventsToProcess)
  IN IF Len(high) >= HIGH_PRIORITY_BATCH_SIZE
     THEN sendBatch([P EXCEPT !.eventBatch = SelectSeq(@, NotTaken)],
                    eventsToProcess, ok)
     ELSE [P EXCEPT !.highTimers = Append(@, now + HIGH_PRIORITY_TIMEOUT)]

\* a timer that sends the oldest HIGH event alone
processHighPriorityBatchOne(P, ok) ==
  LET high == SelectSeq(P.eventBatch, IsHigh)
      NotFirst(e) == NotHigh(e) \/ e # Head(high)
  IN IF Len(high) > 0
     THEN sendBatch([P EXCEPT !.eventBatch = SelectSeq(@, NotFirst)],
                    <<Head(high)>>, ok)
     ELSE P

\* processHighPriorityBatch: every HIGH event of the batch is sent
processHighPriorityBatch(P, ok) ==
  LET high == SelectSeq(P.eventBatch, IsHigh)
  IN IF Len(high) > 0
     THEN sendBatch([P EXCEPT !.eventBatch = SelectSeq(@, NotHigh)], high, ok)
     ELSE P

\* processBatch: the timer is cleared, the first BATCH_SIZE events that are
\* not HIGH are sent, and a timer is set when such events remain
processBatch(P, ok) ==
  IF Len(P.eventBatch) = 0 THEN P
  ELSE LET normalEvents == SelectSeq(P.eventBatch, NotHigh)
           eventsToProcess == Take(normalEvents, BATCH_SIZE)
           P1 == [P EXCEPT !.batchTimer = 0,
                           !.eventBatch = SelectSeq(P.eventBatch, IsHigh)
                                            \o Drop(normalEvents, BATCH_SIZE)]
           P2 == IF Len(eventsToProcess) > 0
                 THEN sendBatch(P1, eventsToProcess, ok) ELSE P1
       IN IF Len(SelectSeq(P2.eventBatch, NotHigh)) > 0
          THEN scheduleBatchProcessing(P2) ELSE P2

\* addEvent
addEvent(P, ev, ok) ==
  LET P1 == [P EXCEPT !.eventBatch = Append(@, ev)]
  IN IF ev.priority = "HIGH" THEN processHighPriorityEvents(P1, ok)
     ELSE IF Len(P1.eventBatch) >= BATCH_SIZE THEN processBatch(P1, ok)
     ELSE scheduleBatchProcessing(P1)

\* the processor takes the value P
SetProcessor(P) ==
  /\ eventBatch' = P.eventBatch
  /\ batchTimer' = P.batchTimer
  /\ highTimers' = P.highTimers
  /\ handed' = P.handed
  /\ lost' = P.lost
  /\ flushing' = P.flushing

\* the events added so far
EventsAdded == Range(eventBatch) \cup Range(handed)

\* whether a timer of the processor is due
TimerDue ==
  \/ batchTimer # 0 /\ batchTimer <= now
  \/ highTimers # <<>> /\ Head(highTimers) <= now

\* time passes for the processor; a timer that is due fires first
AdvanceBatch ==
  /\ now < MaxBatchNow
  /\ ~TimerDue
  /\ now' = now + BatchStepMs
  /\ UNCHANGED <<stillVars, pipeVars>>

\* KafkaEnhancedChessGameService.makeMove publishes the move: move_made with
\* the priority of the move, and game_ended after it when the move ended the
\* game
PublishMove(timeLeft, isGameOver, ok) ==
  /\ Cardinality(EventsAdded) + (IF isGameOver THEN 2 ELSE 1) <= MaxEvents
  /\ \A e \in EventsAdded : e.type \notin EndingTypes
  /\ LET n == Cardinality(EventsAdded)
         moveNumber == 1 + Cardinality({e \in EventsAdded :
                                          e.type = "move_made"})
         moveMadeEvent ==
           [id |-> n + 1, type |-> "move_made", moveNumber |-> moveNumber,
            priority |-> getMoveEventPriority(timeLeft, isGameOver)]
         gameEndedEvent ==
           [id |-> n + 2, type |-> "game_ended", moveNumber |-> 0,
            priority |-> "HIGH"]
         P1 == addEvent(Processor, moveMadeEvent, ok)
     IN SetProcessor(IF isGameOver THEN addEvent(P1, gameEndedEvent, ok)
                     ELSE P1)
  /\ UNCHANGED <<now, stillVars>>

\* KafkaEnhancedChessGameService.handleResignation, handleDrawAccepted and
\* publishGameEndedEvent: the event that ends the game is added as HIGH
PublishEnding(type, ok) ==
  /\ Cardinality(EventsAdded) < MaxEvents
  /\ \A e \in EventsAdded : e.type \notin EndingTypes
  /\ SetProcessor(addEvent(Processor,
       [id |-> Cardinality(EventsAdded) + 1, type |-> type, moveNumber |-> 0,
        priority |-> "HIGH"], ok))
  /\ UNCHANGED <<now, stillVars>>

\* a HIGH_PRIORITY_TIMEOUT timer fires: processHighPriorityBatch
HighTimerFire(ok) ==
  /\ highTimers # <<>>
  /\ Head(highTimers) <= now
  /\ SetProcessor(processHighPriorityBatch(
       [Processor EXCEPT !.highTimers = Tail(@)], ok))
  /\ UNCHANGED <<now, stillVars>>

\* batchTimer fires: processBatch
BatchTimerFire(ok) ==
  /\ batchTimer # 0
  /\ batchTimer <= now
  /\ SetProcessor(processBatch(Processor, ok))
  /\ UNCHANGED <<now, stillVars>>

\* the event pipeline of one game: events are added, the timers fire, and a
\* publish succeeds or fails
NextBatch ==
  \/ AdvanceBatch
  \/ \E tl \in MoveTimeLefts, over \in BOOLEAN, ok \in BOOLEAN :
       PublishMove(tl, over, ok)
  \/ \E type \in EndingTypes, ok \in BOOLEAN : PublishEnding(type, ok)
  \/ \E ok \in BOOLEAN : HighTimerFire(ok)
  \/ \E ok \in BOOLEAN : BatchTimerFire(ok)

SpecBatch == Init /\ [][NextBatch]_vars

\* ------------------------------------------------------- GameEventConsumer
\* the state of the game handlers and of the matchmaker
gameVars == <<now, live, durable, profile, ratingUpdates, clock, handlers,
              moveCmds, accepted, lastGameOver, rooms, matchVars>>

\* KafkaEnhancedChessGameService.makeMove: the move_made event of the next
\* move reaches the game's partition, with the pgn of the position after it
ProduceMove(san) ==
  /\ Len(log) < MaxLog
  /\ LegalMove([i \in 1..Len(log) |-> log[i].san], san)
  /\ LET hist == [i \in 1..Len(log) |-> log[i].san] \o <<san>>
     IN log' = Append(log, [moveNumber |-> Len(hist), san |-> san,
                            pgn |-> Pgn(hist)])
  /\ UNCHANGED <<position, processed, redeliveries, persisted>>
  /\ UNCHANGED <<gameVars, pipeVars, replyVars, calcVars>>

\* GameEventConsumer.handleMoveMade: the move is pushed onto moves and pgn is
\* set, whatever the document holds
handleMoveMade(doc, event) ==
  [moves |-> Append(doc.moves, event.san), pgn |-> event.pgn]

\* GameEventConsumer.handleMessage on the next message of the partition
ConsumeMove ==
  /\ position < Len(log)
  /\ persisted' = handleMoveMade(persisted, log[position + 1])
  /\ processed' = processed \cup {position + 1}
  /\ position' = position + 1
  /\ UNCHANGED <<log, redeliveries>>
  /\ UNCHANGED <<gameVars, pipeVars, replyVars, calcVars>>

\* at-least-once delivery: the consumer restarts from an offset it had gone
\* past (a rebalance or a crash before the offset was committed)
Redeliver(k) ==
  /\ redeliveries < MaxRedeliveries
  /\ k < position
  /\ position' = k
  /\ redeliveries' = redeliveries + 1
  /\ UNCHANGED <<log, processed, persisted>>
  /\ UNCHANGED <<gameVars, pipeVars, replyVars, calcVars>>

\* the persistence of the moves of one game
NextConsume ==
  \/ \E san \in Sans : ProduceMove(san)
  \/ ConsumeMove
  \/ \E k \in 0..MaxLog : Redeliver(k)

SpecConsume == Init /\ [][NextConsume]_vars

\* --------------------------------------------- handleMove, the rejections
\* the error handleMove answers a move message with, in the order of its
\* checks: validateSocketMoveMessage, getGameHash, the sender among the
\* players, the replay of fromGameId, makeMove (turn, then legality) and the
\* turn check of addMoveToGameHash; "none" when the move is accepted
RejectReason(wellFormed, gs, u, san) ==
  IF ~wellFormed THEN "Invalid move data"
  ELSE IF ~gs.exists THEN "Game not found"
  ELSE IF FindPlayer(gs.playerInfo, u) = 0
  THEN "You are not a player in this game"
  ELSE IF ~ReplayOk(gs.moves) THEN "Failed to process move"
  ELSE IF EngineTurn(gs.moves) # gs.playerInfo[FindPlayer(gs.playerInfo, u)].color
  THEN "It's not your turn"
  ELSE IF ~LegalMove(gs.moves, san) THEN "Invalid move"
  ELSE IF gs.playerInfo[FindPlayer(gs.playerInfo, u)].color # gs.turn
  THEN "It's not your turn"
  ELSE "none"

\* a rejection that also broadcasts the move to the room
emitErrorToRoom(u, g, san) ==
  /\ socketErrors' = [socketErrors EXCEPT ![u] = @ + 1]
  /\ accepted' = [accepted EXCEPT ![g] =
       Append(@, [color |-> "white", ply |-> 0, san |-> san])]
  /\ UNCHANGED <<now, live, durable, profile, ratingUpdates, clock, handlers,
                 moveCmds, lastGameOver, rooms, matchVars>>
  /\ UNCHANGED drawOffers

\* socket.emit(MOVE, socketErrorMessage.send(...)) and the return of
\* handleMove: one reply on the sender's socket, nothing else
emitError(u, g, san) ==
  /\ socketErrors' = [socketErrors EXCEPT ![u] = @ + 1]
  /\ UNCHANGED <<gameVars, drawOffers>>

\* gameHandler handleMove, a move message that is rejected
MoveRejected(u, g, san, wellFormed) ==
  /\ Quiet
  /\ socketErrors["a"] + socketErrors["b"] + socketErrors["c"] < MaxRejects
  /\ RejectReason(wellFormed, live[g], u, san) # "none"
  /\ emitError(u, g, san)
  /\ UNCHANGED <<pipeVars, consumerVars, calcVars>>

\* move messages of every kind on a game: the accepted ones and the rejected
NextReject ==
  \/ \E g \in PlayGames, pr \in PlayPairs, w \in SearcherWhite, tc \in TimeControls :
       CreateGame(g, pr[1], pr[2], w, tc)
  \/ \E n \in Nodes, g \in PlayGames : StartGame(n, g)
  \/ \E n \in Nodes, u \in Users, g \in PlayGames, san \in Sans \cup BadSans :
       Move(n, u, g, san)
  \/ \E u \in Users, g \in GameIds, san \in Sans \cup BadSans,
        wellFormed \in BOOLEAN :
       MoveRejected(u, g, san, wellFormed)

SpecReject == Init /\ [][NextReject]_vars

\* ------------------------------------------------------------- disconnect
\* the users that search while they play
DisconnectUsers == {"a"}

\* a disconnect that also drops the node's tracking of the games
DisconnectStopsTimers(n, u) ==
  /\ cancelSearch(u)
  /\ clock' = [clock EXCEPT ![n] = [g \in GameIds |-> NoClock]]
  /\ UNCHANGED <<locks, ticks, searches, matchFound, live, durable, now,
                 profile, ratingUpdates, handlers, moveCmds, accepted,
                 lastGameOver, rooms>>
  /\ UNCHANGED auxVars

\* the disconnect of a socket of user u on node n: the matchmaking handler
\* cancels the search of a user that getSearchStatus reports as searching, the
\* handler of setupSockets only logs, and socket.io takes the socket out of
\* its rooms, which empties those rooms of the node that held no other socket
Disconnect(n, u) ==
  /\ cancelSearch(u)
  /\ \E left \in SUBSET rooms[n] : rooms' = [rooms EXCEPT ![n] = @ \ left]
  /\ UNCHANGED <<locks, ticks, searches, matchFound, live, durable, now,
                 profile, ratingUpdates, clock, handlers, moveCmds, accepted,
                 lastGameOver>>
  /\ UNCHANGED auxVars

\* a game is played and timed while one of its players searches and sockets
\* disconnect
NextDisconnect ==
  \/ Advance
  \/ \E g \in PlayGames, pr \in PlayPairs, w \in SearcherWhite, tc \in TimeControls :
       CreateGame(g, pr[1], pr[2], w, tc)
  \/ \E n \in Nodes, g \in PlayGames : StartGame(n, g)
  \/ \E n \in Nodes, g \in PlayGames : CheckGameTimeout(n, g)
  \/ \E t \in TickSlots, u \in DisconnectUsers, tc \in TimeControls :
       SearchMatch(t, u, tc)
  \/ \E t \in TickSlots : TickSession(t)
  \/ \E t \in TickSlots : TickScan(t)
  \/ \E n \in Nodes, u \in Users : Disconnect(n, u)

SpecDisconnect == Init /\ [][NextDisconnect]_vars

\* ------------------------------------------------ RatingService (the Elo part)
DEFAULT_RATING == 1200
PROVISIONAL_GAMES_THRESHOLD == 30
MAX_RATING_CHANGE == 32
RATING_FLOOR == 100
K_FACTOR_PROVISIONAL == 40
K_FACTOR_BELOW_2100 == 32
K_FACTOR_ABOVE_2100 == 16
K_FACTOR_ABOVE_2400 == 10

\* the ratings the profiles hold (the schema admits every rating from 0 on), and
\* the numbers of games on both sides of the provisional threshold
ProfileRatings ==
  {0, 50, 90, 100, 110, 450, 500, 1200, 1600, 2000, 2099, 2100, 2399, 2400,
   2500, 2800}
ProfileGames == {0, PROVISIONAL_GAMES_THRESHOLD - 1, PROVISIONAL_GAMES_THRESHOLD}
GameResults == {"1-0", "0-1", "1/2-1/2"}

Abs(x) == IF x < 0 THEN 0 - x ELSE x

RECURSIVE Pow10(_)
Pow10(k) == IF k = 0 THEN 1 ELSE 10 * Pow10(k - 1)

\* Math.round of the fraction n / d, d > 0: the nearest integer, a half going up
MathRound(n, d) == (2 * n + d) \div (2 * d)

\* calculateExpectedScore, as the fraction <<numerator, denominator>>; it is
\* exact where the ratings differ by a multiple of 400 points
calculateExpectedScore(playerRating, opponentRating) ==
  LET k == (opponentRating - playerRating) \div 400
  IN IF k >= 0 THEN <<1, 1 + Pow10(k)>>
               ELSE <<Pow10(0 - k), Pow10(0 - k) + 1>>

\* tiers that begin above 2100 and above 2400
getKFactorAbove(player) ==
  IF player.isProvisional THEN K_FACTOR_PROVISIONAL
  ELSE IF player.oldRating > 2400 THEN K_FACTOR_ABOVE_2400
  ELSE IF player.oldRating > 2100 THEN K_FACTOR_ABOVE_2100
  ELSE K_FACTOR_BELOW_2100

getKFactor(player) ==
  IF player.isProvisional THEN K_FACTOR_PROVISIONAL
  ELSE IF player.oldRating >= 2400 THEN K_FACTOR_ABOVE_2400
  ELSE IF player.oldRating >= 2100 THEN K_FACTOR_ABOVE_2100
  ELSE K_FACTOR_BELOW_2100

\* Math.round(kFactor * (score - expectedScore)); the score is held in halves
\* of a point
ratingChange(player, opponentRating, score) ==
  LET e == calculateExpectedScore(player.oldRating, opponentRating)
  IN MathRound(getKFactor(player) * (score * e[2] - 2 * e[1]), 2 * e[2])

calculateEloRating(player, opponentRating, score) ==
  LET floored == Max(player.oldRating + ratingChange(player, opponentRating, score),
                     RATING_FLOOR)
      maxChange == IF player.isProvisional THEN K_FACTOR_PROVISIONAL
                                           ELSE MAX_RATING_CHANGE
      actualChange == floored - player.oldRating
  IN IF Abs(actualChange) > maxChange
     THEN player.oldRating + (IF actualChange > 0 THEN maxChange ELSE 0 - maxChange)
     ELSE floored

\* the scores in halves of a point
getScoreFromResult(result) ==
  IF result = "1-0" THEN [whiteScore |-> 2, blackScore |-> 0]
  ELSE IF result = "0-1" THEN [whiteScore |-> 0, blackScore |-> 2]
  ELSE [whiteScore |-> 1, blackScore |-> 1]

\* the PlayerRatingInfo of a profile [rating, totalGames]
RatingInfo(prof) ==
  [oldRating |-> IF prof.rating = 0 THEN DEFAULT_RATING ELSE prof.rating,
   isProvisional |-> prof.totalGames < PROVISIONAL_GAMES_THRESHOLD,
   gamesPlayed |-> prof.totalGames]

calculateNewRatings(whiteProfile, blackProfile, gameResult) ==
  LET whiteRatingInfo == RatingInfo(whiteProfile)
      blackRatingInfo == RatingInfo(blackProfile)
      sc == getScoreFromResult(gameResult)
      whiteNewRating == calculateEloRating(whiteRatingInfo,
                                           blackRatingInfo.oldRating, sc.whiteScore)
      blackNewRating == calculateEloRating(blackRatingInfo,
                                           whiteRatingInfo.oldRating, sc.blackScore)
  IN [done |-> TRUE, result |-> gameResult,
      whitePlayerRating |->
        [oldRating |-> whiteRatingInfo.oldRating, newRating |-> whiteNewRating,
         ratingChange |-> whiteNewRating - whiteRatingInfo.oldRating,
         isProvisional |-> whiteRatingInfo.isProvisional,
         gamesPlayed |-> whiteRatingInfo.gamesPlayed],
      blackPlayerRating |->
        [oldRating |-> blackRatingInfo.oldRating, newRating |-> blackNewRating,
         ratingChange |-> blackNewRating - blackRatingInfo.oldRating,
         isProvisional |-> blackRatingInfo.isProvisional,
         gamesPlayed |-> blackRatingInfo.gamesPlayed]]

\* the pairs of profiles whose expected scores the model computes exactly
ExactPair(whiteProfile, blackProfile) ==
  LET d == RatingInfo(blackProfile).oldRating - RatingInfo(whiteProfile).oldRating
  IN d % 400 = 0 /\ Abs(d) <= 1600

CalculateNewRatings(whiteProfile, blackProfile, gameResult) ==
  /\ ExactPair(whiteProfile, blackProfile)
  /\ rated' = calculateNewRatings(whiteProfile, blackProfile, gameResult)
  /\ UNCHANGED <<gameVars, pipeVars, consumerVars, replyVars, userRating,
                 endVars>>

NextRating ==
  \E wr \in ProfileRatings, br \in ProfileRatings, wg \in ProfileGames,
     bg \in ProfileGames, r \in GameResults :
    CalculateNewRatings([rating |-> wr, totalGames |-> wg],
                        [rating |-> br, totalGames |-> bg], r)

SpecRating == Init /\ [][NextRating]_vars

\* ------------------------------------------------- gameHash.ts, the encoding
\* a field of the Redis hash: JSON text (JSON.stringify of a value, or the
\* digits of a number), or a string written as it is
JsonText(v) == [json |-> TRUE, value |-> v]
PlainText(v) == [json |-> FALSE, value |-> v]

EndFields == {"gameOver", "winner", "result", "endReason"}

\* the fields that createGameHash, addMoveToGameHash and updateGameHash have
\* written for the LiveGame h; the end-of-game fields are written by the
\* updateGameHash of handleTimeUp alone
HashOf(h) ==
  [k \in {"playerInfo", "timeLeft", "gameInfo", "moves", "turn", "pgn",
          "lastMovePlayedAt"} \cup (IF h.gameOver THEN EndFields ELSE {}) |->
     CASE k = "playerInfo" -> JsonText(h.playerInfo)
       [] k = "timeLeft" -> JsonText(h.timeLeft)
       [] k = "gameInfo" -> JsonText(h.increment)
       [] k = "moves" -> JsonText(h.moves)
       [] k = "turn" -> PlainText(h.turn)
       [] k = "pgn" -> PlainText(h.pgn)
       [] k = "lastMovePlayedAt" -> JsonText(h.lastMovePlayedAt)
       [] k = "gameOver" -> JsonText(h.gameOver)
       [] k = "winner" -> PlainText(h.winner)
       [] k = "result" -> PlainText(h.result)
       [] k = "endReason" -> PlainText(h.endReason)]

\* parseRedisHash: JSON.parse of every field; the strings the program writes
\* as they are (a colour, a PGN, a result, a reason) are no JSON text, the
\* parse fails on them and they are kept
parseRedisHash(data) == [k \in DOMAIN data |-> data[k].value]

\* getGameHash: the GameHashDTO built from the parsed hash, a field that is
\* missing taking its default.  The stamp of the last move is never 0 in the
\* program, so that Number(...) || Date.now() returns the stamp.
getGameHash(data) ==
  LET parsed == parseRedisHash(data)
      Has(k) == k \in DOMAIN parsed
  IN [playerInfo |-> IF Has("playerInfo") THEN parsed.playerInfo ELSE <<>>,
      timeLeft |-> IF Has("timeLeft") THEN parsed.timeLeft
                   ELSE [white |-> 0, black |-> 0],
      increment |-> IF Has("gameInfo") THEN parsed.gameInfo ELSE 0,
      moves |-> IF Has("moves") THEN parsed.moves ELSE <<>>,
      pgn |-> IF Has("pgn") THEN parsed.pgn ELSE <<>>,
      turn |-> IF Has("turn") THEN parsed.turn ELSE "white",
      lastMovePlayedAt |-> IF Has("lastMovePlayedAt")
                           THEN parsed.lastMovePlayedAt ELSE now]

\* ------------------------------------- two searchers 200 points apart
RangeStepMs == 1500
MaxRangeNow == 10500
RangeUsers == {"a", "b"}

InitRange == InitState /\ userRating = FarRatings

\* time passes for the two searchers
AdvanceRange ==
  /\ now + RangeStepMs <= MaxRangeNow
  /\ now' = now + RangeStepMs
  /\ UNCHANGED <<live, durable, profile, ratingUpdates, clock, handlers,
                 moveCmds, accepted, lastGameOver, rooms, matchVars>>
  /\ UNCHANGED auxVars

\* a and b enter the queue once, at the start, and send search_match again
\* and again while they search
NextRange ==
  \/ AdvanceRange
  \/ \E t \in TickSlots, u \in RangeUsers :
       /\ session[u].exists \/ (searches[u] = 0 /\ now = 0)
       /\ SearchMatch(t, u, [time |-> 2, increment |-> 1])
  \/ \E t \in TickSlots : TickSession(t)
  \/ \E t \in TickSlots : TickScan(t)
  \/ \E t \in TickSlots : TickHash(t)
  \/ \E t \in TickSlots : TickInQueue(t)
  \/ \E t \in TickSlots : TickLock(t)
  \/ \E t \in TickSlots : TickRecheck(t)
  \/ \E t \in TickSlots : TickZrem(t)
  \/ \E t \in TickSlots : TickCreate(t, TRUE)
  \/ \E t \in TickSlots : TickCancelSelf(t)
  \/ \E t \in TickSlots : TickCancelOpp(t)
  \/ \E t \in TickSlots : TickUnlock(t)
  \/ \E k \in SUBSET RangeUsers : LockExpire(k)

SpecRange == InitRange /\ [][NextRange]_vars

\* ------------------------------------------- a scramble of HIGH-priority moves
\* the clocks of a time scramble, both under 30 s
ScrambleTimeLeft == [white |-> 20000, black |-> 20000]

\* makeMove publishes a move of the scramble: move_made, HIGH by its clocks
PublishScramble(ok) ==
  /\ Cardinality(EventsAdded) < MaxHighEvents
  /\ SetProcessor(addEvent(Processor,
       [id |-> Cardinality(EventsAdded) + 1, type |-> "move_made",
        moveNumber |-> 1 + Cardinality({e \in EventsAdded :
                                          e.type = "move_made"}),
        priority |-> getMoveEventPriority(ScrambleTimeLeft, FALSE)], ok))
  /\ UNCHANGED <<now, stillVars>>

\* the moves of a scramble and their timers
NextHigh ==
  \/ now < MaxHighNow /\ AdvanceBatch
  \/ \E ok \in BOOLEAN : PublishScramble(ok)
  \/ \E ok \in BOOLEAN : HighTimerFire(ok)

SpecHigh == Init /\ [][NextHigh]_vars

\* -------------------------------------------- the end of a game, recorded
\* what chess.js says of a position: isCheckmate, isStalemate, isDraw (true in
\* a stalemate too) and the side to move
Positions ==
  {[inCheckmate |-> m, inStalemate |-> st, isDraw |-> d, turn |-> c] :
     m \in BOOLEAN, st \in BOOLEAN, d \in BOOLEAN, c \in Colors}

\* the positions that exist: a checkmate is no draw, a stalemate is a draw
ChessPositions ==
  {p \in Positions : /\ p.inCheckmate => ~p.inStalemate /\ ~p.isDraw
                     /\ p.inStalemate => p.isDraw}

\* ChessGameService.getGameStatus
getGameStatus(p) ==
  LET isGameOver == p.inCheckmate \/ p.inStalemate \/ p.isDraw
      mateWinner == IF p.turn = "white" THEN "black" ELSE "white"
  IN [isGameOver |-> isGameOver,
      result |-> IF ~isGameOver THEN "unset"
                 ELSE IF p.inCheckmate
                 THEN (IF mateWinner = "white" THEN "1-0" ELSE "0-1")
                 ELSE "1/2-1/2",
      winner |-> IF ~isGameOver THEN "unset"
                 ELSE IF p.inCheckmate THEN mateWinner ELSE "null",
      reason |-> IF ~isGameOver THEN "unset"
                 ELSE IF p.inCheckmate THEN "checkmate"
                 ELSE IF p.inStalemate THEN "stalemate"
                 ELSE "draw",
      inCheckmate |-> p.inCheckmate, inStalemate |-> p.inStalemate,
      isDraw |-> p.isDraw, turn |-> p.turn]

\* KafkaEnhancedChessGameService.mapReasonToResultType, with the values of
\* RESULT_TYPES
mapReasonToResultType(reason) ==
  IF reason = "checkmate" THEN "checkmate"
  ELSE IF reason = "stalemate" THEN "stalemate"
  ELSE IF reason = "draw" THEN "agreement"
  ELSE "on_going"

\* publishGameEndedEvent
gameEndedEvent(status) ==
  [type |-> "game_ended", winner |-> status.winner,
   reason |-> mapReasonToResultType(status.reason), player |-> "unset"]

\* GameEventConsumer.handleGameEnded, handlePlayerResigned and
\* handleDrawAccepted: the result the document gets
handleEnding(event) ==
  IF event.type = "game_ended"
  THEN [winner |-> event.winner, reason |-> event.reason]
  ELSE IF event.type = "player_resigned"
  THEN [winner |-> IF event.player = "white" THEN "black" ELSE "white",
        reason |-> "resignation"]
  ELSE [winner |-> "draw", reason |-> "agreement"]

\* makeMove reaches the position p: its gameStatus is returned, and
\* game_ended is published when the game is over
MoveStatus(p) ==
  /\ Len(endLog) < MaxEndLog
  /\ gameStatus' = getGameStatus(p)
  /\ endLog' = IF getGameStatus(p).isGameOver
               THEN Append(endLog, gameEndedEvent(getGameStatus(p)))
               ELSE endLog
  /\ UNCHANGED durableResult
  /\ UNCHANGED <<gameVars, pipeVars, consumerVars, replyVars, rated,
                 userRating>>

\* handlePlayerResignation and handleDrawAcceptance publish their event
PublishPlayerEnding(type, c) ==
  /\ Len(endLog) < MaxEndLog
  /\ endLog' = Append(endLog, [type |-> type, winner |-> "unset",
                               reason |-> "unset", player |-> c])
  /\ UNCHANGED <<gameStatus, durableResult>>
  /\ UNCHANGED <<gameVars, pipeVars, consumerVars, replyVars, rated,
                 userRating>>

\* GameEventConsumer.handleMessage on the next game-ending event
ConsumeEnding ==
  /\ endLog # <<>>
  /\ durableResult' = handleEnding(Head(endLog))
  /\ endLog' = Tail(endLog)
  /\ UNCHANGED gameStatus
  /\ UNCHANGED <<gameVars, pipeVars, consumerVars, replyVars, rated,
                 userRating>>

NextEnding ==
  \/ \E p \in ChessPositions : MoveStatus(p)
  \/ \E type \in {"player_resigned", "draw_accepted"}, c \in Colors :
       PublishPlayerEnding(type, c)
  \/ ConsumeEnding

SpecEnding == Init /\ [][NextEnding]_vars

\* ------------------------------------- match_found with the event bus down
\* the searchers of this part: a and c, in each other's initial range and
\* connected to the same node
BusUsers == {"a", "c"}

\* processSearchRequest returns the match, and publishMatchmakingEvent fails:
\* RedisPubSubService.publish logs and throws again, the exception leaves the
\* try block of the search_match handler before the first emit of
\* match_found, and the catch block emits search_error to the searcher
TickUnlockBusDown(t) ==
  /\ ticks[t].pc = "unlock"
  /\ locks' = locks \ {LockKey(ticks[t].user, Head(ticks[t].cands))}
  /\ socketErrors' = [socketErrors EXCEPT ![ticks[t].user] = @ + 1]
  /\ ticks' = [ticks EXCEPT ![t] = NoTick]
  /\ UNCHANGED <<queue, session, playerHash, searches, live, durable, playVars,
                 matchFound, drawOffers>>
  /\ UNCHANGED <<pipeVars, consumerVars, calcVars>>

\* searches and ticks whose publish to the bus succeeds or fails
NextBus ==
  \/ \E t \in TickSlots, u \in BusUsers, tc \in TimeControls : SearchMatch(t, u, tc)
  \/ \E t \in TickSlots : TickSession(t)
  \/ \E t \in TickSlots : TickScan(t)
  \/ \E t \in TickSlots : TickHash(t)
  \/ \E t \in TickSlots : TickInQueue(t)
  \/ \E t \in TickSlots : TickLock(t)
  \/ \E t \in TickSlots : TickRecheck(t)
  \/ \E t \in TickSlots : TickZrem(t)
  \/ \E t \in TickSlots, w \in SearcherWhite : TickCreate(t, w)
  \/ \E t \in TickSlots : TickCancelSelf(t)
  \/ \E t \in TickSlots : TickCancelOpp(t)
  \/ \E t \in TickSlots : TickUnlock(t)
  \/ \E t \in TickSlots : TickUnlockBusDown(t)

SpecBus == Init /\ [][NextBus]_vars

\* --------------------------------- a cancel during another player's tick
\* one processSearchRequest at a time, of a or of c, while both may send
\* cancel_search at any point of it
NextWithdraw ==
  \/ \E u \in BusUsers, tc \in TimeControls : SearchMatch(1, u, tc)
  \/ TickSession(1)
  \/ TickScan(1)
  \/ TickHash(1)
  \/ TickInQueue(1)
  \/ TickLock(1)
  \/ TickRecheck(1)
  \/ TickZrem(1)
  \/ \E w \in SearcherWhite : TickCreate(1, w)
  \/ TickCancelSelf(1)
  \/ TickCancelOpp(1)
  \/ TickUnlock(1)
  \/ \E u \in BusUsers : CancelSearch(u)

SpecWithdraw == Init /\ [][NextWithdraw]_vars

\* ------------------------------------------ a game creation that fails
\* processSearchRequest, createGameForPlayers returning success false
\* (GameModel.create throws or returns nothing): the lock is deleted and the
\* loop goes on with the next candidate
TickCreateFails(t) ==
  /\ ticks[t].pc = "create"
  /\ locks' = locks \ {LockKey(ticks[t].user, Head(ticks[t].cands))}
  /\ ticks' = [ticks EXCEPT ![t] = NextCandidate(@, Tail(@.cands))]
  /\ UNCHANGED <<queue, session, playerHash, searches, live, durable, playVars,
                 matchFound>>
  /\ UNCHANGED auxVars

NextFailure ==
  \/ NextWithdraw
  \/ TickCreateFails(1)

SpecFailure == Init /\ [][NextFailure]_vars

\* ------------------------------------- a session that expires in the queue
\* one processSearchRequest at a time, of a or of c, while the search_session
\* keys of both may reach their 300 s expiry; the queue entry and the player
\* hash have no expiry
NextExpiry ==
  \/ \E u \in BusUsers, tc \in TimeControls : SearchMatch(1, u, tc)
  \/ TickSession(1)
  \/ TickScan(1)
  \/ TickHash(1)
  \/ TickInQueue(1)
  \/ TickLock(1)
  \/ TickRecheck(1)
  \/ TickZrem(1)
  \/ \E w \in SearcherWhite : TickCreate(1, w)
  \/ TickCancelSelf(1)
  \/ TickCancelOpp(1)
  \/ TickUnlock(1)
  \/ \E u \in BusUsers : SessionExpire(u)

SpecExpiry == Init /\ [][NextExpiry]_vars

\* ------------------------------------------------- a draw by agreement
\* gameHandler handleOfferDraw: a player of the game has the offer emitted to
\* the room with its colour as offeredBy; nothing is stored
OfferDraw(n, u, g) ==
  /\ live[g].exists
  /\ LET i == FindPlayer(live[g].playerInfo, u)
     IN IF i # 0
        THEN drawOffers' = [drawOffers EXCEPT ![g] =
               @ \cup {live[g].playerInfo[i].color}]
        ELSE UNCHANGED drawOffers
  /\ UNCHANGED <<gameVars, socketErrors>>
  /\ UNCHANGED <<pipeVars, consumerVars, calcVars>>

\* offers and acceptances of a draw in a game that is created, started and
\* played
NextDraw ==
  \/ \E g \in PlayGames, pr \in PlayPairs, w \in SearcherWhite, tc \in TimeControls :
       CreateGame(g, pr[1], pr[2], w, tc)
  \/ \E n \in Nodes, g \in PlayGames : StartGame(n, g)
  \/ \E n \in Nodes, u \in Users, g \in PlayGames : OfferDraw(n, u, g)
  \/ \E n \in Nodes, u \in Users, g \in PlayGames : AcceptDraw(n, u, g)
  \/ \E n \in Nodes, u \in Users, g \in PlayGames, san \in Sans \cup BadSans :
       Move(n, u, g, san)

SpecDraw == Init /\ [][NextDraw]_vars

\* ------------------------------------------------------------- flushBatch
\* flushBatch up to its await: batchTimer is cleared and a batch that is not
\* empty goes to sendBatch, eventBatch keeping its events during the await
flushBatchSend(P, ok) ==
  LET P1 == [P EXCEPT !.batchTimer = 0]
  IN IF Len(P1.eventBatch) > 0
     THEN [sendBatch(P1, P1.eventBatch, ok) EXCEPT !.flushing = "await"]
     ELSE [P1 EXCEPT !.flushing = "returned"]

\* flushBatch after its await: eventBatch is replaced by an empty array
flushBatchReset(P) ==
  [P EXCEPT !.eventBatch = <<>>, !.flushing = "returned"]

\* flushBatch is called and runs to its await, or to its end with nothing to
\* send
FlushSend(ok) ==
  /\ flushing = "idle"
  /\ SetProcessor(flushBatchSend(Processor, ok))
  /\ UNCHANGED <<now, stillVars>>

\* the await of flushBatch returns
FlushReset ==
  /\ flushing = "await"
  /\ SetProcessor(flushBatchReset(Processor))
  /\ UNCHANGED <<now, stillVars>>

\* the event pipeline up to the end of the flushBatch of gracefulShutdown,
\* which is called at any time
NextFlush ==
  \/ flushing # "returned" /\ AdvanceBatch
  \/ \E tl \in MoveTimeLefts, over \in BOOLEAN, ok \in BOOLEAN :
       flushing # "returned" /\ PublishMove(tl, over, ok)
  \/ \E type \in EndingTypes, ok \in BOOLEAN :
       flushing # "returned" /\ PublishEnding(type, ok)
  \/ \E ok \in BOOLEAN : flushing # "returned" /\ HighTimerFire(ok)
  \/ \E ok \in BOOLEAN : flushing # "returned" /\ BatchTimerFire(ok)
  \/ \E ok \in BOOLEAN : FlushSend(ok)
  \/ FlushReset

SpecFlush == Init /\ [][NextFlush]_vars

\* ------------------------------------------------------------------ claims
\* a game_over was emitted to the room of g: the game has ended
Ended(g) == lastGameOver[g].reason # "none"

\* C1: under any sequence of finalizing operations on any nodes the rating
\* update is applied at most once for a gameId
C1_RatingAtMostOnce == \A g \in GameIds : ratingUpdates[g] <= 1

\* C2: once a game has ended, a move, resign or accept_draw command on it
\* changes neither the LiveGame, the DurableGame nor any rating
C2_EndedIsFinal ==
  [][\A g \in PlayGames :
       (/\ Ended(g)
        /\ \E n \in Nodes, u \in Users :
             \/ Resign(n, u, g)
             \/ AcceptDraw(n, u, g)
             \/ \E san \in Sans \cup BadSans : Move(n, u, g, san))
       => /\ live'[g] = live[g]
          /\ durable'[g] = durable[g]
          /\ profile' = profile
          /\ ratingUpdates' = ratingUpdates]_vars

\* C5: of the move commands processed concurrently from one position only
\* one is broadcast to the room as accepted
C5_OneAcceptedPerPly ==
  \A g \in GameIds : \A i, j \in DOMAIN accepted[g] :
    i # j => accepted[g][i].ply # accepted[g][j].ply

\* C6: a move of colour C is applied to the LiveGame (the hmset of
\* addMoveToGameHash) only when LiveGame.turn = C at that instant
C6_TurnAtApply ==
  [][\A h \in Slots :
       (handlers[h].pc = "hmset" /\ handlers'[h].pc = "utRead")
       => live[handlers[h].g].turn = handlers[h].color]_vars

\* C7: with no move handler in progress the stored pgn is the PGN of the
\* replay of moves and turn is the engine's side to move after the replay
C7_ReplayAgrees ==
  Quiet =>
    \A g \in GameIds :
      live[g].exists =>
        /\ ReplayOk(live[g].moves)
        /\ live[g].pgn = Pgn(live[g].moves)
        /\ live[g].turn = EngineTurn(live[g].moves)

\* C8: for a game joined via start_game on the node, an accepted move made
\* elapsed ms after lastMovePlayedAt leaves the mover
\* max(0, previous - elapsed + increment * 1000) and the opponent's time as
\* it was, flips the turn and adds one move
C8_MoveTime ==
  [][\A g \in PlayGames, n \in Nodes, u \in Users, san \in Sans :
       (/\ clock[n][g].tracked
        /\ Move(n, u, g, san)
        /\ Len(live'[g].moves) = Len(live[g].moves) + 1)
       => LET mover == live[g].turn
              opp == getOppositeColor(mover)
              elapsed == now - live[g].lastMovePlayedAt
          IN /\ live'[g].timeLeft[mover] =
                  Max(0, live[g].timeLeft[mover] - elapsed
                           + live[g].increment * 1000)
             /\ live'[g].timeLeft[opp] = live[g].timeLeft[opp]
             /\ live'[g].turn = opp]_vars

\* C9: when the clock of a game runs on a node and the side to move has no
\* time left, the scanner tick of the node ends the game: winner the opposite
\* colour, endReason timeout, result 1-0 or 0-1, game_over broadcast, the game
\* removed from the node's ClockState
C9_TimeoutEndsGame ==
  [][\A g \in PlayGames, n \in Nodes :
       (/\ clock[n][g].tracked /\ clock[n][g].isActive
        /\ ~Ended(g)
        /\ calculateCurrentTime(n, g, live[g].turn) = 0
        /\ CheckGameTimeout(n, g))
       => LET winner == getOppositeColor(live[g].turn)
          IN /\ live'[g].gameOver
             /\ live'[g].winner = winner
             /\ live'[g].endReason = "timeout"
             /\ live'[g].result = ResultOf(winner)
             /\ lastGameOver'[g] = [winner |-> winner,
                                    result |-> ResultOf(winner),
                                    reason |-> "timeout"]
             /\ ~clock'[n][g].tracked]_vars

\* what the node reports as the remaining time of the side to move
RemainingMs(n, g) == calculateCurrentTime(n, g, live[g].turn)

\* C10: during an active game and while no move is made, the remaining time
\* of the side to move is never negative and never increases
C10_RemainingMonotone ==
  [][\A g \in PlayGames, n \in Nodes :
       (/\ ~Ended(g) /\ ~Ended(g)'
        /\ clock[n][g].tracked /\ clock'[n][g].tracked
        /\ live'[g].moves = live[g].moves)
       => /\ RemainingMs(n, g)' >= 0
          /\ RemainingMs(n, g)' <= RemainingMs(n, g)]_vars

\* the searcher and the candidate a game was created for
SearcherOf(g) == live[g].playerInfo[1].userId
CandidateOf(g) == live[g].playerInfo[2].userId

\* C3: when two different searchers try to pair with the same candidate at
\* once (under different lock keys), the candidate becomes a player of at
\* most one of the games created
C3_NotPairedTwice ==
  \A g1, g2 \in GameIds :
    (/\ live[g1].exists /\ live[g2].exists /\ g1 # g2
     /\ CandidateOf(g1) = CandidateOf(g2))
    => SearcherOf(g1) = SearcherOf(g2)

\* C4: at most one game is ever created for a pair of queued players from
\* their queue entries
C4_OneGamePerPair ==
  \A g1, g2 \in GameIds :
    (live[g1].exists /\ live[g2].exists /\ g1 # g2)
    => PlayersOf(g1) # PlayersOf(g2)

\* C11: across pauseGameTimer and the resumeGameTimer that follows, neither
\* colour's remaining time rises: not at the pause, not while paused, not at
\* the resume, where it stays what it was while paused (the time that passed
\* during the pause is not deducted)
C11_PauseFreezes ==
  [][\A g \in PlayGames, n \in Nodes, c \in Colors :
       /\ (clock[n][g].isActive /\ PauseGame(n, g))
          => calculateCurrentTime(n, g, c)' <= calculateCurrentTime(n, g, c)
       /\ (/\ clock[n][g].tracked /\ ~clock[n][g].isActive
           /\ clock'[n][g].tracked /\ ~clock'[n][g].isActive
           /\ live'[g] = live[g])
          => calculateCurrentTime(n, g, c)' <= calculateCurrentTime(n, g, c)
       /\ (/\ clock[n][g].tracked /\ ~clock[n][g].isActive
           /\ \E u \in Users : Rejoin(n, u, g))
          => calculateCurrentTime(n, g, c)' = calculateCurrentTime(n, g, c)]_vars

\* the remaining time of colour c by the stored game: the stored timeLeft less
\* the time that passed on c's own running turn
AuthoritativeMs(g, c) ==
  IF live[g].turn = c /\ ~live[g].gameOver
  THEN Max(0, live[g].timeLeft[c] - (now - live[g].lastMovePlayedAt))
  ELSE live[g].timeLeft[c]

\* C12: a client time_up report, on any node and in any state of the game,
\* forfeits the claimed colour only if that colour's authoritative remaining
\* time is at most 100 ms
C12_ForfeitOnlyWhenOut ==
  [][\A g \in PlayGames, n \in Nodes, u \in Users, c \in Colors :
       (/\ TimeUpReport(n, u, g, c)
        /\ lastGameOver'[g] = [winner |-> getOppositeColor(c),
                               result |-> ResultOf(getOppositeColor(c)),
                               reason |-> "timeout"]
        /\ ratingUpdates'[g] = ratingUpdates[g] + 1)
       => AuthoritativeMs(g, c) <= ToleranceMs]_vars

\* C13: a game that ended by a terminal move or by an accepted draw is
\* finalized: the LiveGame has gameOver with winner and endReason set, and the
\* rating update was applied for the game
C13_EndedIsFinalized ==
  \A g \in GameIds :
    lastGameOver[g].reason \in {"checkmate", "agreement"}
    => /\ live[g].gameOver
       /\ live[g].winner # "unset"
       /\ live[g].endReason # "unset"
       /\ ratingUpdates[g] >= 1

\* C14: from the instant a game is created by the matchmaker and for as long
\* as it is live, neither of its players is a member of the matchmaking queue
C14_PlayersNotQueued ==
  \A g \in GameIds :
    (live[g].exists /\ ~live[g].gameOver) => PlayersOf(g) \cap queue = {}

\* C15: every LiveGame created, by the matchmaker or by the acceptance of a
\* rematch, has exactly two players with distinct ids and the colours white
\* and black
C15_TwoDistinctPlayers ==
  \A g \in GameIds :
    live[g].exists
    => /\ Len(live[g].playerInfo) = 2
       /\ live[g].playerInfo[1].userId # live[g].playerInfo[2].userId
       /\ {live[g].playerInfo[1].color, live[g].playerInfo[2].color} = Colors

\* a game paired by a tick was drawn and its rematch accepted: the two
\* searches there were went into the first game, the second has its players
\* with the colours swapped
C15_Witness ==
  /\ live[1].exists /\ live[2].exists
  /\ searches["a"] + searches["b"] + searches["c"] = 2
  /\ durable[1].status = "completed"
  /\ live[2].playerInfo[1].userId \in PlayersOf(1)
  /\ \A i \in 1..2, j \in 1..2 :
       live[1].playerInfo[i].userId = live[2].playerInfo[j].userId
       => live[1].playerInfo[i].color # live[2].playerInfo[j].color

\* C16: startSearch invoked for a player who already has a search session
\* leaves the session's searchStartTime and currentRange as they were, and the
\* player stays in the queue
C16_StartSearchIdempotent ==
  [][\A t \in TickSlots :
       (SearchStart(t) /\ session[ticks[t].user].exists)
       => LET u == ticks[t].user
          IN /\ session'[u].searchStartTime = session[u].searchStartTime
             /\ session'[u].currentRange = session[u].currentRange
             /\ u \in queue']_vars

\* C17: from any reachable state, after cancelSearch of a player the player
\* has no search session, is not a member of the queue and has no player hash
C17_CancelRemovesAll ==
  \A u \in CancelUsers :
    /\ ~AfterCancel(u).session[u].exists
    /\ u \notin AfterCancel(u).queue
    /\ ~AfterCancel(u).playerHash[u]

\* C18: a tick that finds the stored range up to date finds it equal to
\* min(60 + 60 * floor(t / 3000), 600), t the time since searchStartTime; over
\* the life of a session currentRange never decreases and never exceeds 600
C18_RangeExpansion ==
  [][/\ \A t \in TickSlots :
          (TickGet(t) /\ ticks'[t].pc = "scan")
          => LET se == session[ticks[t].user]
             IN se.currentRange =
                  Min(60 + 60 * ((now - se.searchStartTime) \div 3000), 600)
     /\ \A u \in Users :
          (/\ session[u].exists /\ session'[u].exists
           /\ session'[u].searchStartTime = session[u].searchStartTime)
          => /\ session'[u].currentRange >= session[u].currentRange
             /\ session'[u].currentRange <= 600]_vars

\* C19: every accepted move of a game is delivered to the sockets in the
\* game's room on every node that has such a socket, not only on the node
\* that processed the move
C19_MoveReachesRoom ==
  [][\A h \in Slots :
       MoveEmit(h) =>
         \A n \in Nodes :
           handlers[h].g \in rooms[n] =>
             n \in emitToRoom(handlers[h].node, handlers[h].g)]_vars

\* C20: when a tick has paired two players and its handler has sent
\* match_found, both players have received match_found with the gameId of the
\* game that was created for them, whichever node holds each socket
C20_BothNotified ==
  [][\A t \in TickSlots :
       TickUnlock(t) =>
         /\ matchFound'[ticks[t].user] = ticks[t].gameId
         /\ matchFound'[Head(ticks[t].cands)] = ticks[t].gameId]_vars

\* C21: no event that ends a game (game_ended, player_resigned,
\* draw_accepted) is dropped: every such event that was added is still in the
\* batch or was handed to the publisher in a batch whose publish succeeded
C21_EndingEventsNotLost ==
  \A e \in lost : e.type \notin EndingTypes

\* C30: the move_made events of a game are handed to the publisher in the
\* order they were added in, by increasing moveNumber, whatever their priority
C30_MovesHandedInOrder ==
  \A i, j \in DOMAIN handed :
    (i < j /\ handed[i].type = "move_made" /\ handed[j].type = "move_made")
      => handed[i].moveNumber < handed[j].moveNumber

\* C22: the persistence consumer is idempotent: the moves of the document are
\* the moves of the messages processed, each once, however often a move_made
\* message was delivered
C22_ConsumerIdempotent ==
  persisted.moves = [i \in 1..Cardinality(processed) |-> log[i].san]

C25_EloFloorAndChange ==
  rated.done =>
    LET sc == getScoreFromResult(rated.result)
        w == rated.whitePlayerRating
        b == rated.blackPlayerRating
        ExpectedOf(side, other, score) ==
          Max(RATING_FLOOR,
              side.oldRating + ratingChange(side, other.oldRating, score))
    IN /\ w.newRating = ExpectedOf(w, b, sc.whiteScore)
       /\ b.newRating = ExpectedOf(b, w, sc.blackScore)
       /\ Abs(ratingChange(w, b.oldRating, sc.whiteScore)) <= getKFactor(w)
       /\ Abs(ratingChange(b, w.oldRating, sc.blackScore)) <= getKFactor(b)
       /\ w.newRating >= RATING_FLOOR /\ b.newRating >= RATING_FLOOR
       /\ (sc.whiteScore = 0 => w.newRating <= w.oldRating)
       /\ (sc.blackScore = 0 => b.newRating <= b.oldRating)

\* C26: the rating changes of white and of black of one calculation sum to
\* zero within rounding; stated for the old ratings that are not below the
\* floor, where the floor adds nothing to a change
C26_ChangesSumToZero ==
  (/\ rated.done
   /\ rated.whitePlayerRating.oldRating >= RATING_FLOOR + K_FACTOR_PROVISIONAL
   /\ rated.blackPlayerRating.oldRating >= RATING_FLOOR + K_FACTOR_PROVISIONAL) =>
    Abs(rated.whitePlayerRating.ratingChange
          + rated.blackPlayerRating.ratingChange) <= 1

\* C27: every game_over message carries the result 1-0 exactly when its winner
\* is white, 0-1 exactly when its winner is black, and 1/2-1/2 exactly when
\* its winner is null
C27_ResultMatchesWinner ==
  \A g \in GameIds :
    lastGameOver[g].reason # "none" =>
      /\ (lastGameOver[g].result = "1-0") <=> (lastGameOver[g].winner = "white")
      /\ (lastGameOver[g].result = "0-1") <=> (lastGameOver[g].winner = "black")
      /\ (lastGameOver[g].result = "1/2-1/2") <=> (lastGameOver[g].winner = "null")

\* C28: getGameHash returns, for every LiveGame that createGameHash and
\* updateGameHash have written, a struct equal to it field by field, the
\* end-of-game fields gameOver, winner, result and endReason included
C28_HashRoundTrip ==
  \A g \in GameIds :
    live[g].exists =>
      LET r == getGameHash(HashOf(live[g]))
      IN /\ r.playerInfo = live[g].playerInfo
         /\ r.timeLeft = live[g].timeLeft
         /\ r.increment = live[g].increment
         /\ r.moves = live[g].moves
         /\ r.pgn = live[g].pgn
         /\ r.turn = live[g].turn
         /\ r.lastMovePlayedAt = live[g].lastMovePlayedAt
         /\ live[g].gameOver =>
              /\ EndFields \subseteq DOMAIN r
              /\ r.gameOver = live[g].gameOver
              /\ r.winner = live[g].winner
              /\ r.result = live[g].result
              /\ r.endReason = live[g].endReason

\* C29: a tick of searcher s goes on to create a game with a candidate only
\* if the candidate's queue score lies within s's range of that tick around
\* s's initial rating; with a at 1200 and b at 1400 entering at the same
\* instant, a tick that reads its session less than 9 s after the entry has a
\* range below 200 and finds no opponent, a tick from 9 s on has the range
\* 240, finds the other searcher while the other is queued, and ends without
\* a game only where another tick is pairing the two or has paired them
C29_RangeGatesPairing ==
  /\ [](\A t \in TickSlots :
          ticks[t].pc \in {"hash", "inQueue", "lock", "recheck", "zrem", "create"} =>
            \A c \in Range(ticks[t].cands) :
              /\ userRating[c] >= userRating[ticks[t].user] - ticks[t].currentRange
              /\ userRating[c] <= userRating[ticks[t].user] + ticks[t].currentRange)
  /\ [][\A t \in TickSlots :
          LET u == ticks[t].user
              o == IF u = "a" THEN "b" ELSE "a"
              Paired == \E g \in GameIds :
                          /\ live'[g].exists
                          /\ {live'[g].playerInfo[1].userId,
                              live'[g].playerInfo[2].userId} = {u, o}
          IN /\ (ticks[t].pc = "session" /\ ticks'[t].pc = "scan") =>
                  IF now - session[u].searchStartTime < 9000
                  THEN ticks'[t].currentRange < 200
                  ELSE ticks'[t].currentRange = 240
             /\ (ticks[t].pc = "scan" /\ ticks'[t].pc # "scan") =>
                  IF ticks[t].currentRange < 200
                  THEN ticks'[t].pc = "idle"
                  ELSE o \in queue =>
                         ticks'[t].pc = "hash" /\ o \in Range(ticks'[t].cands)
             /\ (ticks[t].pc = "create" /\ ticks'[t].pc = "cancelSelf") =>
                  /\ Paired
                  /\ ticks[t].currentRange >= 200
             /\ (/\ ticks[t].pc \in {"hash", "inQueue", "lock", "recheck"}
                 /\ ticks'[t].pc = "idle") =>
                  \/ Paired
                  \/ \E k \in TickSlots \ {t} :
                       ticks[k].pc \in {"recheck", "zrem", "create"}]_vars

\* a and b entered at time 0; a tick made before 9 s has ended without a
\* match, and the tick made at 9 s, with the range 240, has created their game
C29_Witness ==
  /\ now = 9000
  /\ session["a"].searchStartTime = 0 /\ session["b"].searchStartTime = 0
  /\ session["a"].currentRange = 240 /\ session["b"].currentRange = 180
  /\ \E t \in TickSlots :
       /\ ticks[t].pc = "cancelSelf" /\ ticks[t].user = "a"
       /\ ticks[t].currentRange = 240
  /\ live[1].exists /\ ~live[2].exists
  /\ live[1].playerInfo[1].userId = "a" /\ live[1].playerInfo[2].userId = "b"

C32_WinnerAndReasonDomains ==
  LET Winners == {"white", "black", "null"}
      Reasons == {"checkmate", "resignation", "timeout", "stalemate",
                  "agreement", "threefold", "insufficient_material"}
  IN /\ gameStatus.isGameOver =>
          /\ gameStatus.winner \in Winners
          /\ gameStatus.reason \in Reasons
          /\ gameStatus.inCheckmate =>
               gameStatus.winner = getOppositeColor(gameStatus.turn)
          /\ gameStatus.inStalemate => gameStatus.winner = "null"
     /\ durableResult # NoResult =>
          /\ durableResult.winner \in Winners
          /\ durableResult.reason \in Reasons

\* C33: the K-factor is 40 for a player with fewer than 30 games, whatever
\* the rating; from 30 games on it is 10 from 2400, 16 from 2100 and 32 below
\* 2100.  Seen where white has beaten an opponent of the same rating, so that
\* white gains and black loses half of their K-factor
C33_KFactorTiers ==
  LET w == rated.whitePlayerRating
      b == rated.blackPlayerRating
      K(p) == IF p.gamesPlayed < 30 THEN 40
              ELSE IF p.oldRating >= 2400 THEN 10
              ELSE IF p.oldRating >= 2100 THEN 16
              ELSE 32
  IN (/\ rated.done /\ rated.result = "1-0"
      /\ w.oldRating = b.oldRating /\ w.oldRating >= 200) =>
       /\ 2 * w.ratingChange = K(w)
       /\ 2 * b.ratingChange = 0 - K(b)

\* at 2400 each, a white player with exactly 30 games has beaten a black
\* player with 29
C33_Witness ==
  /\ rated.done /\ rated.result = "1-0"
  /\ rated.whitePlayerRating.oldRating = 2400
  /\ rated.whitePlayerRating.gamesPlayed = 30
  /\ rated.whitePlayerRating.ratingChange = 5
  /\ rated.blackPlayerRating.oldRating = 2400
  /\ rated.blackPlayerRating.gamesPlayed = 29
  /\ rated.blackPlayerRating.ratingChange = -20

\* C34: when a tick has created a game and its search_match handler answers,
\* the searcher receives match_found for that game and no error, whether or not
\* the publish to the event bus succeeded
C34_MatchFoundDespiteBusFailure ==
  [][\A t \in TickSlots :
       (ticks[t].pc = "unlock" /\ ticks'[t].pc = "idle") =>
         /\ matchFound'[ticks[t].user] = ticks[t].gameId
         /\ socketErrors' = socketErrors]_vars

\* C35: a player whose cancel has completed before a tick of another player
\* creates its game is not a player of that game: the opponent a tick creates
\* a game with has its search session at that instant
C35_CancelledNeverPaired ==
  [][\A t \in TickSlots :
       (ticks[t].pc = "create" /\ ticks'[t].pc = "cancelSelf") =>
         session[Head(ticks[t].cands)].exists]_vars

\* C36: whenever no tick is in progress, every player with a search session
\* is a member of the queue, also after a tick whose game creation failed
C36_SessionMeansQueued ==
  (\A t \in TickSlots : ticks[t].pc = "idle") =>
    \A u \in Users : session[u].exists => u \in queue

\* C37: both players of a game that matchmaking creates have a live search
\* session at the instant of the creation; a queue entry whose session has
\* expired is never paired
C37_PairedPlayersHaveLiveSession ==
  [][\A t \in TickSlots :
       (ticks[t].pc = "create" /\ ticks'[t].pc = "cancelSelf") =>
         \A p \in {ticks[t].user, Head(ticks[t].cands)} :
           session[p].exists]_vars

\* C38: accept_draw ends a game as a draw by agreement only when an offer of
\* a draw has been made in that game; without one the game stays as it was
C38_DrawNeedsOffer ==
  [][\A g \in GameIds :
       (lastGameOver'[g] # lastGameOver[g] /\
        lastGameOver'[g].reason = "agreement") =>
         drawOffers[g] # {}]_vars

\* C39: with no move handler in progress, the currentTurn of every node's
\* ClockState of a game equals the turn of the live game, also when the last
\* move was processed on another node
C39_ClockTurnMatchesLive ==
  Quiet =>
    \A n \in Nodes, g \in GameIds :
      (clock[n][g].tracked /\ live[g].exists) =>
        clock[n][g].currentTurn = live[g].turn

\* C40: every event that is added is passed to the publisher exactly once:
\* no event is handed over twice, and no event leaves eventBatch without
\* having been handed over
C40_EachEventPublishedOnce ==
  /\ [](\A i, j \in DOMAIN handed : handed[i] = handed[j] => i = j)
  /\ [][\A e \in Range(eventBatch) :
          e \in Range(eventBatch') \/ e \in Range(handed')]_vars

====
